---- MODULE Spec2Model ----
(***************************************************************************)
(* A model of the Pico 2W moon phase tracker (MicroPython).                *)
(*                                                                         *)
(*   moon_calc.py       MoonCalculator: phase name from the moon's age,    *)
(*                      comparison of a local reading with a remote one    *)
(*   lunar_graphics.py  render_moon_phase: the 155x152 1-bit moon bitmap   *)
(*   api_client.py      MoonAPIClient: fetch and parse of the remote data  *)
(*   main.py            MoonTracker._sync_with_api                         *)
(*                                                                         *)
(* Strings the code inspects character by character (phase names) are      *)
(* tuples of one-character strings, so that lower() and the substring      *)
(* test "in" are computed and not assumed.                                 *)
(*                                                                         *)
(* Reals are fixed-point integers:                                         *)
(*   - the moon's age is counted in units of synodic_month / CycleUnits,   *)
(*     so that the cycle fraction age_days / synodic_month is the exact    *)
(*     rational age / CycleUnits;                                          *)
(*   - illumination (percent) and age differences (days) of the            *)
(*     comparison are counted in thousandths, one decimal digit more than  *)
(*     round(x, 2) keeps.                                                  *)
(***************************************************************************)
EXTENDS Integers, Sequences, FiniteSets, TLC

VARIABLES
    age_days,       \* _get_phase_name: its argument
    phase_name,     \* _get_phase_name: the name returned, Pending before the call
    render_arg,     \* render_moon_phase: its argument phase_name
    fb_validates,   \* the firmware's framebuf checks the buffer's length
    render_state,   \* "idle", "returned" or "ValueError"
    render_path,    \* the drawing calls render_moon_phase made
    moon_fb,        \* the bitmap returned: row -> the set of foreground columns
    moon_buffer,    \* the length of the bytearray returned with it
    oob_bit,        \* what a read of a pixel stored beyond the buffer yields
    local_data,     \* _sync_with_api: its argument, the local reading
    wifi_connected, \* wlan.isconnected()
    clock,          \* time.time()
    storage,        \* Storage.data: the sync times
    response,       \* _sync_with_api: the answer the request got
    api_data,       \* _sync_with_api: what get_moon_data returned
    comparison,     \* _sync_with_api: what compare_with_api returned
    sync_state,     \* "idle", "skipped", "done", or the exception raised
    frame_in,       \* _draw_moon_bitmap: the frame buffer fb it is handed
    frame,          \* the frame buffer after the drawing
    draw_state,     \* "idle", "bitmap" (the copy was made) or "fallback"
    calculator,     \* the MoonCalculator's fields
    constructed,    \* the fields __init__ gave it
    timestamp_arg,  \* calculate_moon_phase: its argument
    reading,        \* calculate_moon_phase: the dict returned
    earlier,        \* an earlier call: its timestamp and its reading
    age_float_days, \* _calculate_rise_set: the age, a float of days
    rise_set_out,   \* _calculate_rise_set: the hours and the times formatted
    debug,          \* config.DEBUG
    enable_deep_sleep, \* config.ENABLE_DEEP_SLEEP
    display_initialized, \* DisplayManager.initialized
    run_state,      \* the position of MoonTracker.run, "off" before it starts
    cycles_run,     \* the update cycles begun since the first boot
    last_fetch,     \* the latest request to the API: when, and the sync stored then
    frame_text,     \* the text drawn in the frame: <<string, x, y>>
    display_state,  \* "blank", "updated", "simulated", or "skipped"
    retries,        \* sync_time_ntp: its argument
    attempt,        \* sync_time_ntp: the attempts begun
    ntp_failed,     \* sync_time_ntp: the attempts that raised
    ntp_state,      \* sync_time_ntp: "idle", "loop" or "returned"
    ntp_result,     \* sync_time_ntp: the value returned
    rtc,            \* the time ntptime.settime() set, 0 before
    flash_file,     \* moon_tracker_data.json on the flash
    storage_data,   \* Storage.data of the Storage object in use
    set_call,       \* Storage.set: its arguments, data before it, its result
    storage_state   \* "loaded" by __init__, or "set" since

calc_vars == <<age_days, phase_name>>
render_vars ==
    <<render_arg, fb_validates, render_state, render_path, moon_fb, moon_buffer,
      oob_bit>>
sync_vars ==
    <<local_data, wifi_connected, clock, storage, response, api_data,
      comparison, sync_state>>
display_vars == <<frame_in, frame, draw_state>>
reading_vars ==
    <<calculator, constructed, timestamp_arg, reading, earlier, age_float_days,
      rise_set_out>>
run_vars ==
    <<debug, enable_deep_sleep, display_initialized, run_state, cycles_run, last_fetch,
      frame_text, display_state>>
ntp_vars == <<retries, attempt, ntp_failed, ntp_state, ntp_result, rtc>>
storage_vars == <<flash_file, storage_data, set_call, storage_state>>
vars ==
    <<calc_vars, render_vars, sync_vars, display_vars, reading_vars, run_vars,
      ntp_vars, storage_vars>>

\* Python's None, and the value of a result no call has produced yet.
None == <<"<None>">>
Pending == <<"<pending>">>

\* Resolution of the cycle: the number of age units in one synodic month.
CycleUnits == 2000

----------------------------------------------------------------------------
(* Phase names: the string literals of moon_calc.py lines 96-110.          *)

NewMoon == <<"N", "e", "w", " ", "M", "o", "o", "n">>
WaxingCrescent ==
    <<"W", "a", "x", "i", "n", "g", " ", "C", "r", "e", "s", "c", "e", "n", "t">>
FirstQuarter == <<"F", "i", "r", "s", "t", " ", "Q", "u", "a", "r", "t", "e", "r">>
WaxingGibbous ==
    <<"W", "a", "x", "i", "n", "g", " ", "G", "i", "b", "b", "o", "u", "s">>
FullMoon == <<"F", "u", "l", "l", " ", "M", "o", "o", "n">>
WaningGibbous ==
    <<"W", "a", "n", "i", "n", "g", " ", "G", "i", "b", "b", "o", "u", "s">>
LastQuarter == <<"L", "a", "s", "t", " ", "Q", "u", "a", "r", "t", "e", "r">>
WaningCrescent ==
    <<"W", "a", "n", "i", "n", "g", " ", "C", "r", "e", "s", "c", "e", "n", "t">>

PhaseNames ==
    { NewMoon, WaxingCrescent, FirstQuarter, WaxingGibbous,
      FullMoon, WaningGibbous, LastQuarter, WaningCrescent }

----------------------------------------------------------------------------
(* moon_calc.py: MoonCalculator._get_phase_name                            *)

\* synodic_month = 29.53058867 days, which is CycleUnits age units.
synodic_month == CycleUnits

\* phase = age_days / synodic_month compared with the literal t / 1000.
PhaseLt(age, t) == age * 1000 < t * synodic_month
PhaseGt(age, t) == age * 1000 > t * synodic_month
PhaseGe(age, t) == age * 1000 >= t * synodic_month

\* The condition of the i-th if/elif of lines 95-107 (the else has none).
BranchCond(i, age) ==
    CASE i = 1 -> PhaseLt(age, 33) \/ PhaseGt(age, 967)
      [] i = 2 -> PhaseGe(age, 33) /\ PhaseLt(age, 216)
      [] i = 3 -> PhaseGe(age, 216) /\ PhaseLt(age, 283)
      [] i = 4 -> PhaseGe(age, 283) /\ PhaseLt(age, 467)
      [] i = 5 -> PhaseGe(age, 467) /\ PhaseLt(age, 533)
      [] i = 6 -> PhaseGe(age, 533) /\ PhaseLt(age, 717)
      [] i = 7 -> PhaseGe(age, 717) /\ PhaseLt(age, 783)

\* A variant in which the last branch tests the range its comment states,
\* "0.783 <= phase < 0.967", instead of being a bare else.
get_phase_name_elif(age) ==
    IF BranchCond(1, age) THEN NewMoon
    ELSE IF BranchCond(2, age) THEN WaxingCrescent
    ELSE IF BranchCond(3, age) THEN FirstQuarter
    ELSE IF BranchCond(4, age) THEN WaxingGibbous
    ELSE IF BranchCond(5, age) THEN FullMoon
    ELSE IF BranchCond(6, age) THEN WaningGibbous
    ELSE IF BranchCond(7, age) THEN LastQuarter
    ELSE IF PhaseGe(age, 783) /\ PhaseLt(age, 967) THEN WaningCrescent
    ELSE None

get_phase_name(age) ==
    IF BranchCond(1, age) THEN NewMoon
    ELSE IF BranchCond(2, age) THEN WaxingCrescent
    ELSE IF BranchCond(3, age) THEN FirstQuarter
    ELSE IF BranchCond(4, age) THEN WaxingGibbous
    ELSE IF BranchCond(5, age) THEN FullMoon
    ELSE IF BranchCond(6, age) THEN WaningGibbous
    ELSE IF BranchCond(7, age) THEN LastQuarter
    ELSE WaningCrescent

\* The ages of one cycle, [0, synodic_month).
Ages == 0 .. (synodic_month - 1)


----------------------------------------------------------------------------
(* Strings: str.lower() and the substring test  sub in s.                  *)

UpperCase ==
    <<"A", "B", "C", "D", "E", "F", "G", "H", "I", "J", "K", "L", "M",
      "N", "O", "P", "Q", "R", "S", "T", "U", "V", "W", "X", "Y", "Z">>
LowerCase ==
    <<"a", "b", "c", "d", "e", "f", "g", "h", "i", "j", "k", "l", "m",
      "n", "o", "p", "q", "r", "s", "t", "u", "v", "w", "x", "y", "z">>

lower_char(c) ==
    IF \E i \in DOMAIN UpperCase : UpperCase[i] = c
    THEN LowerCase[CHOOSE i \in DOMAIN UpperCase : UpperCase[i] = c]
    ELSE c

lower(s) == [i \in DOMAIN s |-> lower_char(s[i])]

\* sub in s
Contains(sub, s) ==
    \E i \in 1 .. (Len(s) - Len(sub) + 1) : SubSeq(s, i, i + Len(sub) - 1) = sub

----------------------------------------------------------------------------
(* lunar_graphics.py: the frame buffer of render_moon_phase.               *)
(*                                                                         *)
(* framebuf.FrameBuffer(buffer, width, height, MONO_HLSB) stores pixel     *)
(* (x, y) in bit 7 - x % 8 of byte y * BytesPerRow + x // 8 of buffer.     *)

MOON_SIZE == 140
width == 155
height == 152

\* bytearray((width * height) // 8 + 1)
BufferLen == (width * height) \div 8 + 1

\* MONO_HLSB: each row starts on a byte, ceil(width / 8) bytes a row.
BytesPerRow == (width + 7) \div 8

\* The bytes a width x height MONO_HLSB frame buffer addresses.
RequiredLen == BytesPerRow * height

ByteIndex(x, y) == y * BytesPerRow + x \div 8

\* Pixel (x, y) is a pixel of the frame whose byte lies inside the buffer.
InBuffer(x, y) ==
    /\ 0 <= x /\ x < width
    /\ 0 <= y /\ y < height
    /\ ByteIndex(x, y) < BufferLen

Rows == 0 .. (height - 1)
Cols == 0 .. (width - 1)

\* A frame is the function row -> set of the foreground columns stored in
\* the buffer. A write to a pixel whose byte lies beyond the buffer lands in
\* memory that is not the buffer's, and the frame does not hold it.

\* fb.fill(0)
fill0 == [y \in Rows |-> {}]

\* fb.hline(x, y, w, color), clipped to the frame: what it makes of row y
hline(row, x, y, w, color) ==
    LET xs == { i \in x .. (x + w - 1) : InBuffer(i, y) }
    IN  IF color = 1 THEN row \cup xs ELSE row \ xs

\* fb.pixel(x, y, color) for each point <<x, y>> of pts
plot(fb, pts, color) ==
    [y \in Rows |->
        LET xs == { p[1] : p \in { q \in pts : q[2] = y /\ InBuffer(q[1], y) } }
        IN  IF color = 1 THEN fb[y] \cup xs ELSE fb[y] \ xs]

\* fb.pixel(x, y): the read, row being row y of fb. ob is what memory
\* beyond the buffer holds.
row_pixel(row, ob, x, y) ==
    IF InBuffer(x, y) THEN (IF x \in row THEN 1 ELSE 0) ELSE ob

pixel(fb, ob, x, y) == row_pixel(fb[y], ob, x, y)

\* int(math.sqrt(n)) for an integer n >= 0
isqrt(n) == CHOOSE k \in 0 .. n : k * k <= n /\ (k + 1) * (k + 1) > n

Max(a, b) == IF a >= b THEN a ELSE b

\* int(a / b) for b > 0: Python's int() truncates towards zero
TruncDiv(a, b) == IF a >= 0 THEN a \div b ELSE -((-a) \div b)

----------------------------------------------------------------------------
(* lunar_graphics.py: the drawing primitives.                              *)

\* A loop  for dy in range(-r, r + 1)  whose iteration dy draws on row
\* y + dy alone is the function of the rows it leaves.

draw_circle_filled(fb, x, y, r, color) ==
    [row \in Rows |->
        LET dy == row - y
        IN  IF dy \in (-r) .. r
            THEN LET dx == isqrt(r * r - dy * dy)
                 IN  hline(fb[row], x - dx, y + dy, 2 * dx + 1, color)
            ELSE fb[row]]

\* The points the while loop of draw_circle_outline plots (lines 32-48).
RECURSIVE circle_outline_loop(_, _, _, _, _, _, _)
circle_outline_loop(x, y, f, ddF_x, ddF_y, x1, y1) ==
    IF ~(x1 < y1) THEN {}
    ELSE LET y1n   == IF f >= 0 THEN y1 - 1 ELSE y1
             ddFyn == IF f >= 0 THEN ddF_y + 2 ELSE ddF_y
             f1    == IF f >= 0 THEN f + ddFyn ELSE f
             x1n   == x1 + 1
             ddFxn == ddF_x + 2
             f2    == f1 + ddFxn + 1
         IN  { <<x + x1n, y + y1n>>, <<x - x1n, y + y1n>>,
               <<x + x1n, y - y1n>>, <<x - x1n, y - y1n>>,
               <<x + y1n, y + x1n>>, <<x - y1n, y + x1n>>,
               <<x + y1n, y - x1n>>, <<x - y1n, y - x1n>> }
             \cup circle_outline_loop(x, y, f2, ddFxn, ddFyn, x1n, y1n)

draw_circle_outline(fb, x, y, r, color) ==
    plot(fb,
         { <<x, y + r>>, <<x, y - r>>, <<x + r, y>>, <<x - r, y>> }
         \cup circle_outline_loop(x, y, 1 - r, 0, -2 * r, 0, r),
         color)

\* terminator_x_offset = int((illumination / 50.0 - 1.0) * radius),
\* negated when not waxing
terminator_x_offset(radius, illumination, waxing) ==
    LET t == TruncDiv((illumination - 50) * radius, 50)
    IN  IF waxing THEN t ELSE -t

\* The scanline loop of the crescent branch (lines 80-95).
crescent_rows(fb, center_x, center_y, radius, toff, waxing, color) ==
    [row \in Rows |->
        LET dy == row - center_y
        IN  IF dy \in (-radius) .. radius
            THEN LET dx_circle == isqrt(Max(0, radius * radius - dy * dy))
                     x_start == IF waxing THEN center_x + toff
                                ELSE center_x - dx_circle
                     x_end   == IF waxing THEN center_x + dx_circle
                                ELSE center_x + toff
                 IN  IF x_end > x_start
                     THEN hline(fb[row], x_start, center_y + dy,
                                x_end - x_start + 1, color)
                     ELSE fb[row]
            ELSE fb[row]]

\* The scanline loop of the shadow of the gibbous branch (lines 102-116).
shadow_rows(fb, center_x, center_y, radius, toff, waxing) ==
    [row \in Rows |->
        LET dy == row - center_y
        IN  IF dy \in (-radius) .. radius
            THEN LET dx_circle == isqrt(Max(0, radius * radius - dy * dy))
                     x_start == IF waxing THEN center_x - dx_circle
                                ELSE center_x + toff
                     x_end   == IF waxing THEN center_x + toff
                                ELSE center_x + dx_circle
                 IN  IF x_end > x_start
                     THEN hline(fb[row], x_start, center_y + dy,
                                x_end - x_start + 1, 0)
                     ELSE fb[row]
            ELSE fb[row]]

draw_crescent(fb, center_x, center_y, radius, illumination, waxing, color) ==
    LET outlined == draw_circle_outline(fb, center_x, center_y, radius, color)
        toff == terminator_x_offset(radius, illumination, waxing)
    IN  IF illumination < 50
        THEN crescent_rows(outlined, center_x, center_y, radius, toff, waxing,
                           color)
        ELSE LET filled ==
                     draw_circle_filled(outlined, center_x, center_y, radius, color)
             IN  IF illumination < 100
                 THEN shadow_rows(filled, center_x, center_y, radius, toff, waxing)
                 ELSE filled

----------------------------------------------------------------------------
(* lunar_graphics.py: render_moon_phase.                                   *)

\* The drawing calls a branch of render_moon_phase makes.
OutlineOnly == [draw |-> "outline"]
FilledDisc == [draw |-> "filled+outline"]
Crescent(illumination, waxing) ==
    [draw |-> "crescent", illumination |-> illumination, waxing |-> waxing]
NoPath == [draw |-> "none"]

\* The if/elif chain of lines 143-181.
render_branch(name) ==
    LET phase_lower == lower(name)
        has(sub) == Contains(sub, phase_lower)
    IN  IF has(<<"n", "e", "w">>) THEN OutlineOnly
        ELSE IF has(<<"f", "u", "l", "l">>) THEN FilledDisc
        ELSE IF \/ has(<<"f", "i", "r", "s", "t">>)
                \/ has(<<"w", "a", "x", "i", "n", "g", " ", "h", "a", "l", "f">>)
             THEN Crescent(50, TRUE)
        ELSE IF \/ has(<<"l", "a", "s", "t">>)
                \/ has(<<"w", "a", "n", "i", "n", "g", " ", "h", "a", "l", "f">>)
                \/ has(<<"t", "h", "i", "r", "d">>)
             THEN Crescent(50, FALSE)
        ELSE IF has(lower(WaxingCrescent)) THEN Crescent(25, TRUE)
        ELSE IF has(lower(WaxingGibbous)) THEN Crescent(75, TRUE)
        ELSE IF has(lower(WaningGibbous)) THEN Crescent(75, FALSE)
        ELSE IF has(lower(WaningCrescent)) THEN Crescent(25, FALSE)
        ELSE FilledDisc

center_x == width \div 2
center_y == height \div 2
radius == MOON_SIZE \div 2

\* What a branch draws on the cleared frame.
draw_branch(fb, branch) ==
    CASE branch.draw = "outline" ->
            draw_circle_outline(fb, center_x, center_y, radius, 1)
      [] branch.draw = "filled+outline" ->
            draw_circle_outline(
                draw_circle_filled(fb, center_x, center_y, radius, 1),
                center_x, center_y, radius, 1)
      [] branch.draw = "crescent" ->
            draw_crescent(fb, center_x, center_y, radius,
                          branch.illumination, branch.waxing, 1)

\* The frame render_moon_phase returns when the frame buffer is constructed.
render_bitmap(name) == draw_branch(fill0, render_branch(name))

\* framebuf.FrameBuffer(buffer, width, height, MONO_HLSB) with a buffer
\* shorter than the frame: a firmware whose framebuf validates the length
\* raises ValueError; one that does not keeps the short buffer and reads
\* and writes beyond its end.
FrameBufferRaises(validates, buffer_len) ==
    validates /\ buffer_len < RequiredLen

\* What a read beyond the end of the buffer can yield.
OobReads == IF BufferLen < RequiredLen THEN {0, 1} ELSE {0}

\* The arguments render_moon_phase is applied to: the eight names of
\* _get_phase_name, the names of its own docstring and of its alternative
\* keywords, other spellings, and names it does not know.
OtherNames ==
    { <<"N", "e", "w">>,
      <<"F", "u", "l", "l">>,
      <<"W", "a", "x", "i", "n", "g", " ", "H", "a", "l", "f">>,
      <<"W", "a", "n", "i", "n", "g", " ", "H", "a", "l", "f">>,
      <<"T", "h", "i", "r", "d", " ", "Q", "u", "a", "r", "t", "e", "r">>,
      <<"n", "e", "w", " ", "m", "o", "o", "n">>,
      <<"F", "U", "L", "L", " ", "M", "O", "O", "N">>,
      <<"w", "a", "n", "i", "n", "g", " ", "g", "i", "b", "b", "o", "u", "s">>,
      <<"R", "e", "n", "e", "w", "e", "d">>,
      <<"B", "l", "o", "o", "d", " ", "M", "o", "o", "n">>,
      <<"U", "n", "k", "n", "o", "w", "n">>,
      <<"N", "/", "A">>,
      <<>>,
      <<"C", "r", "e", "s", "c", "e", "n", "t">>,
      <<"G", "i", "b", "b", "o", "u", "s">>,
      <<"W", "a", "x", "i", "n", "g">>,
      <<"W", "a", "n", "i", "n", "g">>,
      <<"H", "a", "r", "v", "e", "s", "t">>,
      <<"Q", "u", "a", "r", "t", "e", "r">> }

RenderNames == PhaseNames \cup OtherNames


----------------------------------------------------------------------------
(* Python values of the remote data: None, a number (in thousandths), a    *)
(* string; Absent marks a key a dict does not hold.                        *)

PyNone == [t |-> "None", v |-> 0]
Num(n) == [t |-> "num", v |-> n]
Str(s) == [t |-> "str", v |-> s]
Absent == [t |-> "absent", v |-> 0]
NotYet == [t |-> "pending", v |-> 0]
EmptyDict == [t |-> "empty", v |-> 0]

\* not v, for the values a remote reading can be
Falsy(v) == v.t \in {"None", "empty"}

\* a == b
PyEq(a, b) == a.t = b.t /\ a.v = b.v

\* d.get(key): the lookup that leaves the default out
Get_no_default(field, default) ==
    IF field.t = "absent" THEN PyNone ELSE field

\* d.get(key, default), field being d's entry for key
Get(field, default) == IF field.t = "absent" THEN default ELSE field

Unknown == <<"U", "n", "k", "n", "o", "w", "n">>
NA == <<"N", "/", "A">>

----------------------------------------------------------------------------
(* api_client.py: MoonAPIClient                                            *)

\* _parse_response(data). A lookup .get on a value that is no dict raises
\* AttributeError, which the except clause turns into None. Of the nine
\* keys of moon_data the five the comparison and the display read are kept;
\* others_ok tells whether 'distance', 'angular_diameter' and 'zodiac' are
\* dicts or absent, so that their lookups do not raise.
parse_response(data) ==
    IF data.kind # "dict" THEN PyNone
    ELSE IF data.phase.t \notin {"absent", "dict"} THEN PyNone
    ELSE IF ~data.others_ok THEN PyNone
    ELSE LET phase == IF data.phase.t = "absent"
                      THEN [phase |-> Absent, illumination |-> Absent,
                            age |-> Absent]
                      ELSE data.phase.v
         IN  [t |-> "dict",
              phase_name |-> Get(phase.phase, Str(Unknown)),
              illumination |-> Get(phase.illumination, Num(0)),
              age_days |-> Get(phase.age, Num(0)),
              moonrise |-> Get(data.moonrise, Str(NA)),
              moonset |-> Get(data.moonset, Str(NA))]

\* get_moon_data(): resp is what urequests.get and response.json() do.
get_moon_data(resp) ==
    CASE resp.kind = "exception" -> PyNone
      [] resp.kind = "status" -> PyNone
      [] resp.kind = "ok" -> parse_response(resp.data)

----------------------------------------------------------------------------
(* moon_calc.py: MoonCalculator.compare_with_api                           *)

Abs(n) == IF n >= 0 THEN n ELSE -n

\* round(x, 2) of x >= 0 in thousandths: the results it can have. A value
\* halfway between two hundredths is not a binary fraction, and the float
\* that stands for it rounds to either neighbour.
round2(x) ==
    LET q == x \div 10
        r == x % 10
    IN  IF r < 5 THEN { 10 * q }
        ELSE IF r > 5 THEN { 10 * (q + 1) }
        ELSE { 10 * q, 10 * (q + 1) }

Returns(value) == [exc |-> "none", value |-> value]
Raises(exc) == [exc |-> exc, value |-> PyNone]

\* The comparison with thresholds that include their bound (<= 5.0, <= 0.5)
compare_with_api_le(local, api) ==
    IF Falsy(api) THEN { Returns(PyNone) }
    ELSE IF api.illumination.t # "num" THEN { Raises("TypeError") }
    ELSE IF api.age_days.t # "num" THEN { Raises("TypeError") }
    ELSE LET illumination_diff == Abs(local.illumination.v - api.illumination.v)
             age_diff == Abs(local.age_days.v - api.age_days.v)
         IN  { Returns([t |-> "dict",
                        illumination_match |-> illumination_diff <= 5000,
                        illumination_diff |-> ri,
                        age_match |-> age_diff <= 500,
                        age_diff |-> ra,
                        phase_name_match |->
                            PyEq(local.phase_name, api.phase_name)]) :
                 ri \in round2(illumination_diff), ra \in round2(age_diff) }

\* The comparison with the match flags decided on the rounded differences
compare_with_api_on_rounded(local, api) ==
    IF Falsy(api) THEN { Returns(PyNone) }
    ELSE IF api.illumination.t # "num" THEN { Raises("TypeError") }
    ELSE IF api.age_days.t # "num" THEN { Raises("TypeError") }
    ELSE LET illumination_diff == Abs(local.illumination.v - api.illumination.v)
             age_diff == Abs(local.age_days.v - api.age_days.v)
         IN  { Returns([t |-> "dict",
                        illumination_match |-> ri < 5000,
                        illumination_diff |-> ri,
                        age_match |-> ra < 500,
                        age_diff |-> ra,
                        phase_name_match |->
                            PyEq(local.phase_name, api.phase_name)]) :
                 ri \in round2(illumination_diff), ra \in round2(age_diff) }

\* The comparison without its guard: None['illumination'] raises TypeError,
\* {}['illumination'] raises KeyError.
compare_with_api_unguarded(local, api) ==
    IF api.t = "None" THEN { Raises("TypeError") }
    ELSE IF api.t = "empty" THEN { Raises("KeyError") }
    ELSE IF api.illumination.t # "num" THEN { Raises("TypeError") }
    ELSE IF api.age_days.t # "num" THEN { Raises("TypeError") }
    ELSE LET illumination_diff == Abs(local.illumination.v - api.illumination.v)
             age_diff == Abs(local.age_days.v - api.age_days.v)
         IN  { Returns([t |-> "dict",
                        illumination_match |-> illumination_diff < 5000,
                        illumination_diff |-> ri,
                        age_match |-> age_diff < 500,
                        age_diff |-> ra,
                        phase_name_match |->
                            PyEq(local.phase_name, api.phase_name)]) :
                 ri \in round2(illumination_diff), ra \in round2(age_diff) }

\* compare_with_api(local_data, api_data): the outcomes it can have.
\* float - None and float - str raise TypeError.
compare_with_api(local, api) ==
    IF Falsy(api) THEN { Returns(PyNone) }
    ELSE IF api.illumination.t # "num" THEN { Raises("TypeError") }
    ELSE IF api.age_days.t # "num" THEN { Raises("TypeError") }
    ELSE LET illumination_diff == Abs(local.illumination.v - api.illumination.v)
             age_diff == Abs(local.age_days.v - api.age_days.v)
         IN  { Returns([t |-> "dict",
                        illumination_match |-> illumination_diff < 5000,
                        illumination_diff |-> ri,
                        age_match |-> age_diff < 500,
                        age_diff |-> ra,
                        phase_name_match |->
                            PyEq(local.phase_name, api.phase_name)]) :
                 ri \in round2(illumination_diff), ra \in round2(age_diff) }

----------------------------------------------------------------------------
(* main.py: MoonTracker._sync_with_api, with the storage and the WiFi      *)
(* state it reads and writes.                                              *)

\* Readings calculate_moon_phase returns (timestamps 1700500000 and
\* 1699900000), illumination and age_days rounded to two decimals.
LocalReadings ==
    { [phase_name |-> Str(FirstQuarter), illumination |-> Num(50500),
       age_days |-> Num(7430)],
      [phase_name |-> Str(NewMoon), illumination |-> Num(270),
       age_days |-> Num(480)] }

\* The values the remote service can give a field of its 'phase' object.
RemoteIllumination ==
    { Absent, PyNone, Str(<<"5", "3">>),
      Num(0), Num(50500), Num(53504), Num(55495), Num(55496), Num(55500) }
RemoteAge ==
    { Absent, PyNone, Str(<<"7", ".", "6">>),
      Num(0), Num(7430), Num(7634), Num(7925), Num(7926), Num(7930) }
RemotePhase ==
    { Absent, PyNone, Str(FirstQuarter), Str(NewMoon),
      Str(<<"F", "i", "r", "s", "t", " ", "q", "u", "a", "r", "t", "e", "r">>) }
RemoteTime == { Absent, Str(<<"0", "7", ":", "1", "1">>) }

PhaseObjects ==
    { Absent, PyNone, Str(FirstQuarter) }
    \cup { [t |-> "dict", v |-> [phase |-> p, illumination |-> i, age |-> a]] :
             p \in RemotePhase, i \in RemoteIllumination, a \in RemoteAge }

\* What a request to the remote service can end in.
Responses ==
    { [kind |-> "exception"], [kind |-> "status"],
      [kind |-> "ok", data |-> [kind |-> "list"]] }
    \cup { [kind |-> "ok",
            data |-> [kind |-> "dict", phase |-> ph, others_ok |-> ok,
                      moonrise |-> tm, moonset |-> tm]] :
             ph \in PhaseObjects, ok \in BOOLEAN, tm \in RemoteTime }

\* The last time the clock reaches.
MaxClock == 2

\* What compare_with_api can be handed as api_data: what get_moon_data
\* returns, and the empty dict.
RemoteReadings == { get_moon_data(resp) : resp \in Responses } \cup { EmptyDict }



----------------------------------------------------------------------------
(* display_manager.py: DisplayManager, the 400x300 frame buffer as a       *)
(* function from each row to the set of its foreground columns.            *)

FrameWidth == 400
FrameHeight == 300
FrameRows == 0 .. (FrameHeight - 1)
FrameCols == 0 .. (FrameWidth - 1)

\* image1Gray.fill(0x00)
blank_frame == [y \in FrameRows |-> {}]

\* fb.hline(x, y, w, 1) for each <<x, y, w>> of lines and fb.pixel(x, y, 1)
\* for each <<x, y>> of pts; what lies outside the frame is clipped.
frame_draw(fb, lines, pts) ==
    [r \in FrameRows |->
        fb[r]
        \cup (UNION { h[1] .. (h[1] + h[3] - 1) : h \in { l \in lines : l[2] = r } }
                \cap FrameCols)
        \cup ({ q[1] : q \in { t \in pts : t[2] = r } } \cap FrameCols)]

\* _draw_circle: the pairs <<x, y>> its while loop goes through.
RECURSIVE circle_steps(_, _, _)
circle_steps(x, y, err) ==
    IF x < y THEN {}
    ELSE LET y1 == IF err <= 0 THEN y + 1 ELSE y
             err1 == IF err <= 0 THEN err + 2 * y1 + 1 ELSE err
             x1 == IF err1 > 0 THEN x - 1 ELSE x
             err2 == IF err1 > 0 THEN err1 - (2 * x1 + 1) ELSE err1
         IN  { <<x, y>> } \cup circle_steps(x1, y1, err2)

\* _draw_circle(fb, x0, y0, radius, filled)
draw_circle(fb, x0, y0, r, filled) ==
    LET steps == circle_steps(r, 0, 0)
    IN  IF filled
        THEN frame_draw(fb,
                 UNION { { <<x0 - s[1], y0 + s[2], 2 * s[1]>>,
                           <<x0 - s[1], y0 - s[2], 2 * s[1]>>,
                           <<x0 - s[2], y0 + s[1], 2 * s[2]>>,
                           <<x0 - s[2], y0 - s[1], 2 * s[2]>> } : s \in steps },
                 {})
        ELSE frame_draw(fb, {},
                 UNION { { <<x0 + s[1], y0 + s[2]>>, <<x0 + s[2], y0 + s[1]>>,
                           <<x0 - s[2], y0 + s[1]>>, <<x0 - s[1], y0 + s[2]>>,
                           <<x0 - s[1], y0 - s[2]>>, <<x0 - s[2], y0 - s[1]>>,
                           <<x0 + s[2], y0 - s[1]>>, <<x0 + s[1], y0 - s[2]>> } :
                         s \in steps })

\* _draw_moon_phase_graphic(fb, phase_name, center_x, center_y, radius): the
\* outline, then the body two pixels smaller. The symbol it writes last, in
\* the 8x8 cells at (center_x - 4, center_y - 4), lies on the body, which
\* is foreground already, and fb.text sets foreground pixels only.
draw_moon_phase_graphic(fb, cx, cy, r) ==
    draw_circle(draw_circle(fb, cx, cy, r, FALSE), cx, cy, r - 2, TRUE)

\* The try block of _draw_moon_bitmap: each pixel of the bitmap that reads
\* as set is set in the frame at (x_pos + dx, y_pos + dy).
copy_bitmap(fb, moon, ob, x_pos, y_pos) ==
    [r \in FrameRows |->
        IF r - y_pos \in Rows
        THEN LET dy == r - y_pos
                 row == moon[dy]
             IN  fb[r] \cup ({ x_pos + dx : dx \in { c \in Cols :
                                  row_pixel(row, ob, c, dy) = 1 } }
                               \cap FrameCols)
        ELSE fb[r]]

\* _draw_moon_bitmap(fb, phase_name, x_pos, y_pos): the frame it leaves
\* and the path it took. An exception of render_moon_phase is caught and
\* the simple graphic drawn instead.
draw_moon_bitmap(fb, name, x_pos, y_pos, validates, ob) ==
    IF FrameBufferRaises(validates, BufferLen)
    THEN [path |-> "fallback",
          fb |-> draw_moon_phase_graphic(fb, x_pos + 77, y_pos + 76, 60)]
    ELSE [path |-> "bitmap",
          fb |-> copy_bitmap(fb, render_bitmap(name), ob, x_pos, y_pos)]

\* Where _draw_layout puts the moon.
moon_x == 30
moon_y == 70

\* The names _draw_layout passes on: the eight of the reading, and the
\* default it takes when the reading has none.
BlitNames == PhaseNames \cup { Unknown }

\* Frames _draw_moon_bitmap can be handed: the cleared frame, and frames
\* that hold foreground pixels already, inside and outside the moon's
\* rectangle.
Frames ==
    { blank_frame,
      frame_draw(blank_frame, { <<0, y, FrameWidth>> : y \in 140 .. 143 }, {}),
      frame_draw(blank_frame,
                 { <<100, y, 40>> : y \in 60 .. 80 } \cup { <<0, 299, 400>> },
                 { <<107, 146>>, <<399, 0>> }) }

----------------------------------------------------------------------------
(* moon_calc.py: MoonCalculator.calculate_moon_phase. Time is counted in   *)
(* ticks, one tick being synodic_month / CycleUnits days (21 minutes at    *)
(* 2000 ticks a cycle); a timestamp is the number of ticks since the Unix  *)
(* epoch, negative before 1970.                                            *)

\* The Julian Date of the Unix epoch (2440587.5) and of the reference new
\* moon (2451550.26), in ticks.
unix_epoch_jd == 165292167
known_new_moon_jd == 166034635

\* _timestamp_to_julian(timestamp)
timestamp_to_julian(timestamp) == timestamp + unix_epoch_jd

\* The remainder of C's fmod: it has the sign of x.
c_fmod(x, m) == IF x >= 0 THEN x - m * (x \div m) ELSE -((-x) - m * ((-x) \div m))

\* Python's x % m for m > 0: the remainder has the sign of m.
py_mod(x, m) == x - m * (x \div m)

\* _calculate_moon_age(jd)
calculate_moon_age(jd) ==
    LET days_since_known == jd - known_new_moon_jd
    IN  py_mod(days_since_known, synodic_month)

\* math.cos, to four decimals: a number x stands for x / TrigScale.
TrigScale == 40000
HalfPi == 62832

trig_mul(a, b) == (a * b) \div TrigScale

\* The cosine and the sine of x, 0 <= x <= pi / 4, by their power series.
cos_series(x) ==
    LET y == trig_mul(x, x)
        u4 == TrigScale - y \div 56
        u3 == TrigScale - trig_mul(y, u4) \div 30
        u2 == TrigScale - trig_mul(y, u3) \div 12
    IN  TrigScale - trig_mul(y, u2) \div 2

sin_series(x) ==
    LET y == trig_mul(x, x)
        v3 == TrigScale - y \div 42
        v2 == TrigScale - trig_mul(y, v3) \div 20
        v1 == TrigScale - trig_mul(y, v2) \div 6
    IN  trig_mul(x, v1)

\* math.cos((age / synodic_month) * 2 * math.pi), for an angle of any
\* sign: the angle is brought into the first half of a quadrant, where the
\* series are taken.
cos_phase_angle(age) ==
    LET quadrant == ((4 * age) \div synodic_month) % 4
        rest == (4 * age) % synodic_month
        near == 2 * rest <= synodic_month
        x == IF near THEN (rest * HalfPi) \div synodic_month
             ELSE ((synodic_month - rest) * HalfPi) \div synodic_month
        c == IF near THEN cos_series(x) ELSE sin_series(x)
        sn == IF near THEN sin_series(x) ELSE cos_series(x)
    IN  CASE quadrant = 0 -> c
          [] quadrant = 1 -> -sn
          [] quadrant = 2 -> -c
          [] quadrant = 3 -> sn

\* (1 - cos) * 100, the division by 2 left out
calculate_illumination_undivided(age) ==
    ((TrigScale - cos_phase_angle(age)) * 5) \div 2

\* _calculate_illumination(age_days), in thousandths of a percent:
\* (1 - cos) / 2 * 100, and 100000 / (2 * TrigScale) = 5 / 4.
calculate_illumination(age) ==
    ((TrigScale - cos_phase_angle(age)) * 5) \div 4

\* round(x, 2) as calculate_moon_phase applies it to a value it computed,
\* x in thousandths: one of the values of round2, the even one at a tie.
py_round2(x) ==
    LET q == x \div 10
        r == x % 10
    IN  IF r < 5 \/ (r = 5 /\ q % 2 = 0) THEN 10 * q ELSE 10 * (q + 1)

\* age_days in thousandths of a day (synodic_month = 29.53058867 days)
age_in_days(age) == (age * 295306) \div (10 * synodic_month)

----------------------------------------------------------------------------
(* The hours of _calculate_rise_set are floating-point numbers, and the    *)
(* rounding of their sums decides what x % 24 returns for a small negative *)
(* x. They are modelled as floats of FloatBits significant bits: a number  *)
(* n stands for n / HourUnits hours (or days), and each operation rounds   *)
(* its exact result to FloatBits bits, to even at a tie, no finer than one *)
(* unit.                                                                   *)

FloatBits == 16
HourUnits == 8192

RECURSIVE Pow2(_)
Pow2(n) == IF n = 0 THEN 1 ELSE 2 * Pow2(n - 1)

\* The distance between the floats next to n >= 0.
RECURSIVE ulp(_)
ulp(n) == IF n < Pow2(FloatBits) THEN 1 ELSE 2 * ulp(n \div 2)

\* The float nearest to n / d, for n >= 0 and d > 0.
fl_ratio(n, d) ==
    LET u == ulp(n \div d)
        m == n \div (d * u)
        rest == n - m * d * u
    IN  IF 2 * rest > d * u \/ (2 * rest = d * u /\ m % 2 = 1)
        THEN (m + 1) * u
        ELSE m * u

\* The float nearest to n.
fl(n) == IF n >= 0 THEN fl_ratio(n, 1) ELSE -fl_ratio(-n, 1)

\* x % m on floats, m > 0: fmod(x, m) is exact, and when it is negative m
\* is added to it, which rounds.
float_mod(x, m) ==
    LET r == c_fmod(x, m)
    IN  IF r < 0 THEN fl(r + m) ELSE r

Digits == <<"0", "1", "2", "3", "4", "5", "6", "7", "8", "9">>

\* f"{n:02d}" for 0 <= n <= 99
format_02d(n) == <<Digits[(n \div 10) + 1], Digits[(n % 10) + 1]>>

\* _format_time(hour_decimal): the hours and the minutes it cuts out
time_parts(hour_decimal) ==
    LET hours == hour_decimal \div HourUnits
        minutes == fl(fl(hour_decimal - hours * HourUnits) * 60) \div HourUnits
    IN  [hours |-> hours, minutes |-> minutes]

\* _format_time(hour_decimal)
format_time(hour_decimal) ==
    LET t == time_parts(hour_decimal)
    IN  format_02d(t.hours) \o <<":">> \o format_02d(t.minutes)

\* The lines of _calculate_rise_set after the age is known: the two hours
\* it formats. age_days and timezone_offset are floats.
rise_set_hours(age_days_f, timezone_offset) ==
    LET base_rise == 6 * HourUnits
        base_set == 18 * HourUnits
        time_shift == fl_ratio(fl(age_days_f * 50), 60)
        moonrise_hour == float_mod(fl(base_rise + time_shift), 24 * HourUnits)
        moonset_hour == float_mod(fl(base_set + time_shift), 24 * HourUnits)
    IN  [moonrise_hour |->
             float_mod(fl(moonrise_hour + timezone_offset), 24 * HourUnits),
         moonset_hour |->
             float_mod(fl(moonset_hour + timezone_offset), 24 * HourUnits)]

\* An age in ticks as a float of days: synodic_month = 29.531 days.
age_float(age) == (age * ((29531 * HourUnits) \div 1000)) \div synodic_month

\* The rise and set times with the offset taken from the longitude, 15
\* degrees an hour (longitude in thousandths of a degree).
calculate_rise_set_by_longitude(self, jd) ==
    LET h == rise_set_hours(age_float(calculate_moon_age(jd)),
                            fl((self.longitude * HourUnits) \div 15000))
    IN  [moonrise |-> format_time(h.moonrise_hour),
         moonset |-> format_time(h.moonset_hour)]

\* _calculate_rise_set(jd)
calculate_rise_set(self, jd) ==
    LET h == rise_set_hours(age_float(calculate_moon_age(jd)),
                            self.timezone_offset)
    IN  [moonrise |-> format_time(h.moonrise_hour),
         moonset |-> format_time(h.moonset_hour)]

\* calculate_moon_phase that folds the offset into the calculator: each
\* call leaves timezone_offset an hour further on.
calculate_moon_phase_drifting(self, timestamp) ==
    LET jd == timestamp_to_julian(timestamp)
        age == calculate_moon_age(jd)
        rise_set == calculate_rise_set(self, jd)
    IN  [self |-> [self EXCEPT !.timezone_offset = @ + HourUnits],
         result |-> [t |-> "dict",
                     phase_name |-> Str(get_phase_name(age)),
                     illumination |-> Num(py_round2(calculate_illumination(age))),
                     age_days |-> Num(py_round2(age_in_days(age))),
                     moonrise |-> Str(rise_set.moonrise),
                     moonset |-> Str(rise_set.moonset),
                     timestamp |-> Num(timestamp)]]

\* calculate_moon_phase(timestamp), with an explicit timestamp: the reading
\* returned and the fields of the calculator after the call.
calculate_moon_phase(self, timestamp) ==
    LET jd == timestamp_to_julian(timestamp)
        age == calculate_moon_age(jd)
        rise_set == calculate_rise_set(self, jd)
    IN  [self |-> self,
         result |-> [t |-> "dict",
                     phase_name |-> Str(get_phase_name(age)),
                     illumination |-> Num(py_round2(calculate_illumination(age))),
                     age_days |-> Num(py_round2(age_in_days(age))),
                     moonrise |-> Str(rise_set.moonrise),
                     moonset |-> Str(rise_set.moonset),
                     timestamp |-> Num(timestamp)]]

\* The calculators: __init__(latitude, longitude, timezone_offset), the
\* coordinates in thousandths of a degree, the offset a float of hours.
Offsets == { -8 * HourUnits, 0, (11 * HourUnits) \div 2 }
Latitudes == { 0, 40713 }
Longitudes == { 0, -74006 }
Calculators ==
    [latitude : Latitudes, longitude : Longitudes, timezone_offset : Offsets]
NoCalculator == [latitude |-> 0, longitude |-> 0, timezone_offset |-> 0]

\* The timestamps: TimeSpan ticks to either side of the reference new
\* moon, and some around the Unix epoch and around November 2023.
TimeSpan == 1100
Timestamps ==
    LET reference == known_new_moon_jd - unix_epoch_jd
    IN  (-60 .. 60)
        \cup ((reference - TimeSpan) .. (reference + TimeSpan))
        \cup (1332940 .. 1333000)

\* The ages _calculate_rise_set is applied to, floats of days: every eighth
\* of a day of the cycle, and the floats next to the multiples of 1.2 days,
\* where the shift of 50 minutes a day comes to a whole hour.
RiseSetAges ==
    { fl(a * (HourUnits \div 8)) : a \in 0 .. 236 }
    \cup { fl((k * 6 * HourUnits) \div 5 + d) : k \in 1 .. 24, d \in -4 .. 1 }

\* The offsets from UTC, floats of hours: the whole hours and 5:30.
RiseSetOffsets ==
    { h * HourUnits : h \in -12 .. 14 } \cup { (11 * HourUnits) \div 2 }

\* The timestamps of repeated calls: before the Unix epoch, the epoch, the
\* reference new moon, a quarter of a cycle after it, and November 2023.
CallTimestamps ==
    { -30, 0, known_new_moon_jd - unix_epoch_jd,
      known_new_moon_jd - unix_epoch_jd + synodic_month \div 4, 1332971 }

\* The calls counted between a remembered call and the latest one
MaxBetween == 2

----------------------------------------------------------------------------
(* wifi_manager.py: WiFiManager.sync_time_ntp                              *)

\* for attempt in range(retries), entered with one more attempt than asked
attempt_in_range_inclusive(n, r) == n <= r

\* for attempt in range(retries): another attempt is begun after n of them
attempt_in_range(n, r) == n < r

\* The values of the argument retries
MaxRetries == 5

\* The times the NTP server can hand to ntptime.settime()
NtpTimes == { 1, 1332971, 1332972, 1333000, 1334000 }

----------------------------------------------------------------------------
(* main.py: MoonTracker.run and what it calls. config.py is not part of    *)
(* the sources: its settings are inputs, the intervals in ticks.           *)

LOCAL_UPDATE_INTERVAL == 250
API_UPDATE_INTERVAL == 600

\* _should_sync_api() when time.time() is now and storage holds last_sync
should_sync_api(now, last_sync) == now - last_sync >= API_UPDATE_INTERVAL

\* The update cycles of a run
MaxCycles == 3

\* The clock when the program is first started
RunStart == 1332971

\* The calculator of the run: MoonCalculator(config.LATITUDE,
\* config.LONGITUDE, config.TIMEZONE_OFFSET)
RunCalculator ==
    [latitude |-> 40713, longitude |-> -74006,
     timezone_offset |-> -8 * HourUnits]

\* What the requests of a run can end in: no answer, an answer that agrees
\* with the local reading, and one whose illumination is null.
RunResponses ==
    { [kind |-> "exception"] }
    \cup { [kind |-> "ok",
            data |-> [kind |-> "dict",
                      phase |-> [t |-> "dict",
                                 v |-> [phase |-> Str(FirstQuarter),
                                        illumination |-> i,
                                        age |-> Num(7430)]],
                      others_ok |-> TRUE,
                      moonrise |-> Absent, moonset |-> Absent]] :
             i \in { Num(50500), PyNone } }

\* A text _draw_text puts into the frame at (x, y): a literal, the
\* characters of a string of the reading, or a number under a format.
Text(x, y, kind, chars, num) ==
    [x |-> x, y |-> y, kind |-> kind, chars |-> chars, num |-> num]

\* The texts of _draw_layout(fb, moon_data, location_name, last_update)
\* that depend on its arguments.
layout_text(moon_data, last_update) ==
    LET name == Get(moon_data.phase_name, Str(Unknown)).v
    IN  { Text(220, 115, ".1f%", <<>>, Get(moon_data.illumination, Num(0)).v),
          Text(220, 215, "str", Get(moon_data.moonrise, Str(NA)).v, 0),
          Text(220, 265, "str", Get(moon_data.moonset, Str(NA)).v, 0),
          Text((220 - Len(name) * 8) \div 2, 245, "str", name, 0),
          Text(90, 270, "HH:MM", <<>>, last_update) }

----------------------------------------------------------------------------
(* storage.py: Storage. The file holds, when it was written whole, the     *)
(* text json.dump made of each value under its key.                        *)

\* The dict _load returns when the file cannot be read
DefaultData ==
    [k \in {"last_ntp_sync", "last_api_sync", "time_offset", "boot_time"} |->
        Num(0)]

\* str(n) for n >= 0
RECURSIVE decimal(_)
decimal(n) ==
    IF n < 10 THEN <<Digits[n + 1]>>
    ELSE Append(decimal(n \div 10), Digits[(n % 10) + 1])

\* int(text) for a text of digits
RECURSIVE integer(_)
integer(text) ==
    IF text = <<>> THEN 0
    ELSE 10 * integer(SubSeq(text, 1, Len(text) - 1))
         + (CHOOSE d \in 0 .. 9 : Digits[d + 1] = text[Len(text)])

\* json.dump of a value: null, an integer, or a string in quotes
json_text(value) ==
    CASE value.t = "None" -> <<"n", "u", "l", "l">>
      [] value.t = "str" -> <<"\"">> \o value.v \o <<"\"">>
      [] value.t = "num" ->
            IF value.v < 0 THEN <<"-">> \o decimal(-value.v)
            ELSE decimal(value.v)

\* json.load of the text of a value
json_value(text) ==
    IF text = <<"n", "u", "l", "l">> THEN PyNone
    ELSE IF Head(text) = "\"" THEN Str(SubSeq(text, 2, Len(text) - 1))
    ELSE IF Head(text) = "-" THEN Num(-integer(Tail(text)))
    ELSE Num(integer(text))

\* The file when it does not exist, and when a write was cut short
MissingFile == [exists |-> FALSE, whole |-> FALSE, entries |-> {}]
BrokenFile == [exists |-> TRUE, whole |-> FALSE, entries |-> {}]

\* What json.dump(self.data, f) writes
json_dump(data) ==
    [exists |-> TRUE, whole |-> TRUE,
     entries |-> { <<k, json_text(data[k])>> : k \in DOMAIN data }]

\* _load(): OSError for a file that is missing, ValueError for one that
\* does not parse.
load(file) ==
    IF ~file.exists \/ ~file.whole THEN DefaultData
    ELSE [k \in { e[1] : e \in file.entries } |->
             json_value((CHOOSE e \in file.entries : e[1] = k)[2])]

\* self.data[key] = value, with every other key dropped
set_item_alone(data, key, value) ==
    [k \in {key} |-> value]

\* self.data[key] = value
set_item(data, key, value) ==
    [k \in DOMAIN data \cup {key} |-> IF k = key THEN value ELSE data[k]]

\* The keys and the values Storage.set is called with
StorageKeys == { "last_ntp_sync", "last_api_sync", "boot_time", "note" }
StorageValues ==
    { Num(0), Num(1332971), Num(-86400), PyNone, Str(<<"o", "k">>) }

\* The calls of Storage.set in a run
MaxSets == 2

----------------------------------------------------------------------------
(* The specifications. Each applies one part of the program to its inputs  *)
(* and leaves the variables of the other parts at rest.                    *)

CalcIdle == age_days = 0 /\ phase_name = Pending

RenderIdle ==
    /\ render_arg = <<>>
    /\ fb_validates = TRUE
    /\ render_state = "idle"
    /\ render_path = NoPath
    /\ moon_fb = fill0
    /\ moon_buffer = 0
    /\ oob_bit = 0

SyncIdle ==
    /\ local_data = NotYet
    /\ wifi_connected = FALSE
    /\ clock = 1
    /\ storage = [last_ntp_sync |-> 0, last_api_sync |-> 0]
    /\ response = [kind |-> "none"]
    /\ api_data = NotYet
    /\ comparison = NotYet
    /\ sync_state = "idle"

DisplayIdle ==
    /\ frame_in = blank_frame
    /\ frame = blank_frame
    /\ draw_state = "idle"

ReadingIdle ==
    /\ calculator = NoCalculator
    /\ constructed = NoCalculator
    /\ timestamp_arg = 0
    /\ reading = NotYet
    /\ earlier = NotYet
    /\ age_float_days = 0
    /\ rise_set_out = NotYet

RunIdle ==
    /\ debug = FALSE
    /\ enable_deep_sleep = FALSE
    /\ display_initialized = FALSE
    /\ run_state = "off"
    /\ cycles_run = 0
    /\ last_fetch = NotYet
    /\ frame_text = {}
    /\ display_state = "blank"

NtpIdle ==
    /\ retries = 0
    /\ attempt = 0
    /\ ntp_failed = 0
    /\ ntp_state = "idle"
    /\ ntp_result = NotYet
    /\ rtc = 0

StorageIdle ==
    /\ flash_file = MissingFile
    /\ storage_data = DefaultData
    /\ set_call = NotYet
    /\ storage_state = "loaded"

\* SpecPhase: _get_phase_name applied to every age of the cycle.

InitPhase ==
    /\ age_days \in Ages
    /\ phase_name = Pending
    /\ RenderIdle
    /\ SyncIdle
    /\ DisplayIdle
    /\ ReadingIdle
    /\ RunIdle
    /\ NtpIdle
    /\ StorageIdle

GetPhaseName ==
    /\ phase_name = Pending
    /\ phase_name' = get_phase_name(age_days)
    /\ UNCHANGED <<age_days, render_vars, sync_vars, display_vars,
                   reading_vars,
                   run_vars, ntp_vars,
                   storage_vars>>

NextPhase == GetPhaseName

SpecPhase == InitPhase /\ [][NextPhase]_vars

\* SpecRender: render_moon_phase applied to each name, on a firmware that
\* validates the frame buffer's length and on one that does not.

InitRender ==
    /\ render_arg \in RenderNames
    /\ fb_validates \in BOOLEAN
    /\ render_state = "idle"
    /\ render_path = NoPath
    /\ moon_fb = fill0
    /\ moon_buffer = 0
    /\ oob_bit = 0
    /\ CalcIdle
    /\ SyncIdle
    /\ DisplayIdle
    /\ ReadingIdle
    /\ RunIdle
    /\ NtpIdle
    /\ StorageIdle

\* render_moon_phase(render_arg), from the bytearray to the return.
RenderMoonPhase ==
    /\ render_state = "idle"
    /\ IF FrameBufferRaises(fb_validates, BufferLen)
       THEN /\ render_state' = "ValueError"
            /\ UNCHANGED <<render_path, moon_fb, moon_buffer, oob_bit>>
       ELSE /\ render_state' = "returned"
            /\ render_path' = render_branch(render_arg)
            /\ moon_fb' = render_bitmap(render_arg)
            /\ moon_buffer' = BufferLen
            /\ oob_bit' \in OobReads
    /\ UNCHANGED <<render_arg, fb_validates, calc_vars, sync_vars,
                   display_vars,
                   reading_vars,
                   run_vars, ntp_vars,
                   storage_vars>>

NextRender == RenderMoonPhase

SpecRender == InitRender /\ [][NextRender]_vars

\* SpecSync: _sync_with_api in the cycles of the run loop.

InitSync ==
    /\ local_data \in LocalReadings
    /\ wifi_connected \in BOOLEAN
    /\ clock = 1
    /\ storage = [last_ntp_sync |-> 0, last_api_sync |-> 0]
    /\ response = [kind |-> "none"]
    /\ api_data = NotYet
    /\ comparison = NotYet
    /\ sync_state = "idle"
    /\ CalcIdle
    /\ RenderIdle
    /\ DisplayIdle
    /\ ReadingIdle
    /\ RunIdle
    /\ NtpIdle
    /\ StorageIdle

\* _sync_with_api that records the time of the attempt, whatever came of
\* the request
sync_with_api_stamping(connect_ok, resp, ntp_time) ==
    IF ~wifi_connected /\ ~connect_ok
    THEN /\ sync_state' = "skipped"
         /\ UNCHANGED <<wifi_connected, storage, response, api_data,
                        comparison>>
    ELSE /\ wifi_connected' = TRUE
         /\ response' = resp
         /\ api_data' = get_moon_data(resp)
         /\ storage' = [storage EXCEPT !.last_api_sync = clock]
         /\ IF Falsy(api_data')
            THEN /\ sync_state' = "done"
                 /\ UNCHANGED comparison
            ELSE \E outcome \in compare_with_api(local_data, api_data') :
                    IF outcome.exc # "none"
                    THEN /\ sync_state' = outcome.exc
                         /\ UNCHANGED comparison
                    ELSE /\ sync_state' = "done"
                         /\ comparison' = outcome.value

\* _sync_with_api(local_data). connect_ok is the result of wifi.connect(),
\* resp the answer to the request, ntp_time the result of sync_time_ntp()
\* (None, or the time). An exception of compare_with_api leaves the method
\* before the sync times are stored.
sync_with_api(connect_ok, resp, ntp_time) ==
    IF ~wifi_connected /\ ~connect_ok
    THEN /\ sync_state' = "skipped"
         /\ UNCHANGED <<wifi_connected, storage, response, api_data,
                        comparison>>
    ELSE /\ wifi_connected' = TRUE
         /\ response' = resp
         /\ api_data' = get_moon_data(resp)
         /\ IF Falsy(api_data')
            THEN /\ sync_state' = "done"
                 /\ UNCHANGED <<storage, comparison>>
            ELSE \E outcome \in compare_with_api(local_data, api_data') :
                    IF outcome.exc # "none"
                    THEN /\ sync_state' = outcome.exc
                         /\ UNCHANGED <<storage, comparison>>
                    ELSE /\ sync_state' = "done"
                         /\ comparison' = outcome.value
                         /\ storage' =
                              [last_api_sync |-> clock,
                               last_ntp_sync |->
                                   IF ntp_time.t = "num" /\ ntp_time.v # 0
                                   THEN ntp_time.v
                                   ELSE storage.last_ntp_sync]

\* A cycle in which the verification is due
SyncWithApi ==
    /\ sync_state = "idle"
    /\ \E connect_ok \in BOOLEAN, resp \in Responses,
          ntp_time \in { PyNone, Num(clock) } :
          sync_with_api(connect_ok, resp, ntp_time)
    /\ UNCHANGED <<local_data, clock, calc_vars, render_vars, display_vars,
                   reading_vars,
                   run_vars, ntp_vars,
                   storage_vars>>

\* The run loop's next cycle: time has passed, WiFi may have dropped, and
\* calculate_moon_phase gives the cycle its reading.
NextCycle ==
    /\ sync_state # "idle"
    /\ clock < MaxClock
    /\ clock' = clock + 1
    /\ local_data' \in LocalReadings
    /\ wifi_connected' \in {wifi_connected, FALSE}
    /\ response' = [kind |-> "none"]
    /\ api_data' = NotYet
    /\ comparison' = NotYet
    /\ sync_state' = "idle"
    /\ UNCHANGED <<storage, calc_vars, render_vars, display_vars,
                   reading_vars,
                   run_vars, ntp_vars,
                   storage_vars>>

NextSync == SyncWithApi \/ NextCycle

SpecSync == InitSync /\ [][NextSync]_vars

\* SpecCompare: compare_with_api applied to a local reading and to each
\* value api_data can have.

InitCompare ==
    /\ local_data \in LocalReadings
    /\ api_data \in RemoteReadings
    /\ comparison = NotYet
    /\ sync_state = "idle"
    /\ wifi_connected = FALSE
    /\ clock = 1
    /\ storage = [last_ntp_sync |-> 0, last_api_sync |-> 0]
    /\ response = [kind |-> "none"]
    /\ CalcIdle
    /\ RenderIdle
    /\ DisplayIdle
    /\ ReadingIdle
    /\ RunIdle
    /\ NtpIdle
    /\ StorageIdle

\* comparison = compare_with_api(local_data, api_data)
CompareWithApi ==
    /\ sync_state = "idle"
    /\ \E outcome \in compare_with_api(local_data, api_data) :
          IF outcome.exc # "none"
          THEN sync_state' = outcome.exc /\ UNCHANGED comparison
          ELSE sync_state' = "done" /\ comparison' = outcome.value
    /\ UNCHANGED <<local_data, api_data, wifi_connected, clock, storage,
                   response, calc_vars, render_vars, display_vars,
                   reading_vars,
                   run_vars, ntp_vars,
                   storage_vars>>

NextCompare == CompareWithApi

SpecCompare == InitCompare /\ [][NextCompare]_vars

\* SpecBlit: _draw_moon_bitmap applied to a frame and a phase name, on a
\* firmware that validates the bitmap's buffer and on one that does not.

InitBlit ==
    /\ ReadingIdle
    /\ render_arg \in BlitNames
    /\ fb_validates \in BOOLEAN
    /\ frame_in \in Frames
    /\ frame = frame_in
    /\ draw_state = "idle"
    /\ render_state = "idle"
    /\ render_path = NoPath
    /\ moon_fb = fill0
    /\ moon_buffer = 0
    /\ oob_bit = 0
    /\ CalcIdle
    /\ SyncIdle
    /\ RunIdle
    /\ NtpIdle
    /\ StorageIdle

\* _draw_moon_bitmap(frame_in, render_arg, 30, 70)
DrawMoonBitmap ==
    /\ draw_state = "idle"
    /\ \E ob \in OobReads :
          LET drawn == draw_moon_bitmap(frame_in, render_arg, moon_x, moon_y,
                                        fb_validates, ob)
          IN  /\ oob_bit' = IF drawn.path = "bitmap" THEN ob ELSE oob_bit
              /\ frame' = drawn.fb
              /\ draw_state' = drawn.path
    /\ UNCHANGED <<frame_in, render_arg, fb_validates, render_state,
                   render_path, moon_fb, moon_buffer, calc_vars, sync_vars,
                   reading_vars,
                   run_vars, ntp_vars,
                   storage_vars>>

NextBlit == DrawMoonBitmap

SpecBlit == InitBlit /\ [][NextBlit]_vars

\* SpecReading: calculate_moon_phase applied to each timestamp, by each
\* calculator.

InitReading ==
    /\ calculator \in Calculators
    /\ constructed = calculator
    /\ timestamp_arg \in Timestamps
    /\ reading = NotYet
    /\ earlier = NotYet
    /\ age_float_days = 0
    /\ rise_set_out = NotYet
    /\ CalcIdle
    /\ RenderIdle
    /\ SyncIdle
    /\ DisplayIdle
    /\ RunIdle
    /\ NtpIdle
    /\ StorageIdle

\* reading = calculate_moon_phase(timestamp_arg); age_days and phase_name are
\* its local variables of these names.
CalculateMoonPhase ==
    /\ reading = NotYet
    /\ LET out == calculate_moon_phase(calculator, timestamp_arg)
       IN  /\ reading' = out.result
           /\ calculator' = out.self
    /\ age_days' = calculate_moon_age(timestamp_to_julian(timestamp_arg))
    /\ phase_name' = get_phase_name(age_days')
    /\ UNCHANGED <<constructed, timestamp_arg, earlier, age_float_days, rise_set_out,
                   render_vars, sync_vars, display_vars,
                   run_vars, ntp_vars,
                   storage_vars>>

NextReading == CalculateMoonPhase

SpecReading == InitReading /\ [][NextReading]_vars

\* SpecRiseSet: _calculate_rise_set applied at each age of the cycle, by a
\* calculator at each offset from UTC.

InitRiseSet ==
    /\ calculator \in
           [latitude : {0}, longitude : {0}, timezone_offset : RiseSetOffsets]
    /\ constructed = calculator
    /\ age_float_days \in RiseSetAges
    /\ rise_set_out = NotYet
    /\ timestamp_arg = 0
    /\ reading = NotYet
    /\ earlier = NotYet
    /\ CalcIdle
    /\ RenderIdle
    /\ SyncIdle
    /\ DisplayIdle
    /\ RunIdle
    /\ NtpIdle
    /\ StorageIdle

\* moonrise, moonset = _calculate_rise_set(jd), for a jd of the age
\* age_float_days.
CalculateRiseSet ==
    /\ rise_set_out = NotYet
    /\ LET h == rise_set_hours(age_float_days, calculator.timezone_offset)
       IN  rise_set_out' =
               [t |-> "tuple",
                moonrise_hour |-> h.moonrise_hour,
                moonset_hour |-> h.moonset_hour,
                moonrise |-> format_time(h.moonrise_hour),
                moonset |-> format_time(h.moonset_hour)]
    /\ UNCHANGED <<calculator, constructed, age_float_days, timestamp_arg,
                   reading, earlier, calc_vars, render_vars, sync_vars,
                   display_vars,
                   run_vars, ntp_vars,
                   storage_vars>>

NextRiseSet == CalculateRiseSet

SpecRiseSet == InitRiseSet /\ [][NextRiseSet]_vars

\* SpecCalls: calculate_moon_phase called again and again on one
\* calculator, with explicit timestamps in any order. earlier remembers one
\* of the calls made before the latest, and how many were made in between.

InitCalls ==
    /\ calculator \in Calculators
    /\ constructed = calculator
    /\ timestamp_arg = 0
    /\ reading = NotYet
    /\ earlier = NotYet
    /\ age_float_days = 0
    /\ rise_set_out = NotYet
    /\ CalcIdle
    /\ RenderIdle
    /\ SyncIdle
    /\ DisplayIdle
    /\ RunIdle
    /\ NtpIdle
    /\ StorageIdle

CallMoonPhase(ts) ==
    /\ LET out == calculate_moon_phase(calculator, ts)
       IN  /\ reading' = out.result
           /\ calculator' = out.self
    /\ timestamp_arg' = ts
    /\ age_days' = calculate_moon_age(timestamp_to_julian(ts))
    /\ phase_name' = get_phase_name(age_days')
    /\ \/ /\ reading # NotYet
          /\ earlier' = [t |-> "call", timestamp |-> timestamp_arg,
                         result |-> reading, between |-> 0]
       \/ /\ earlier # NotYet
          /\ earlier.between < MaxBetween
          /\ earlier' = [earlier EXCEPT !.between = @ + 1]
       \/ /\ reading = NotYet
          /\ earlier' = earlier
    /\ UNCHANGED <<constructed, age_float_days, rise_set_out, render_vars,
                   sync_vars, display_vars,
                   run_vars, ntp_vars,
                   storage_vars>>

NextCalls == \E ts \in CallTimestamps : CallMoonPhase(ts)

SpecCalls == InitCalls /\ [][NextCalls]_vars

\* SpecNtp: sync_time_ntp(retries), attempt by attempt. The method runs
\* to its return once called, hence the fairness.

InitNtp ==
    /\ wifi_connected \in BOOLEAN
    /\ retries \in 0 .. MaxRetries
    /\ attempt = 0
    /\ ntp_failed = 0
    /\ ntp_state = "idle"
    /\ ntp_result = NotYet
    /\ rtc = 0
    /\ local_data = NotYet
    /\ clock = 1
    /\ storage = [last_ntp_sync |-> 0, last_api_sync |-> 0]
    /\ response = [kind |-> "none"]
    /\ api_data = NotYet
    /\ comparison = NotYet
    /\ sync_state = "idle"
    /\ CalcIdle
    /\ RenderIdle
    /\ DisplayIdle
    /\ ReadingIdle
    /\ RunIdle
    /\ StorageIdle

\* if not self.is_connected(): return None
NtpEnter ==
    /\ ntp_state = "idle"
    /\ IF ~wifi_connected
       THEN /\ ntp_state' = "returned"
            /\ ntp_result' = PyNone
       ELSE /\ ntp_state' = "loop"
            /\ ntp_result' = ntp_result
    /\ UNCHANGED <<retries, attempt, ntp_failed, rtc, calc_vars, render_vars,
                   sync_vars, display_vars, reading_vars, run_vars,
                   storage_vars>>

\* One pass of the loop: ntptime.settime() sets the clock to t and the
\* method returns time.time(), or it raises and the loop goes on.
NtpAttempt ==
    /\ ntp_state = "loop"
    /\ attempt_in_range(attempt, retries)
    /\ attempt' = attempt + 1
    /\ \/ \E t \in NtpTimes :
            /\ rtc' = t
            /\ ntp_result' = Num(t)
            /\ ntp_state' = "returned"
            /\ ntp_failed' = ntp_failed
       \/ /\ ntp_failed' = ntp_failed + 1
          /\ UNCHANGED <<rtc, ntp_result, ntp_state>>
    /\ UNCHANGED <<retries, calc_vars, render_vars, sync_vars, display_vars,
                   reading_vars, run_vars,
                   storage_vars>>

\* The loop is exhausted: return None
NtpGiveUp ==
    /\ ntp_state = "loop"
    /\ ~attempt_in_range(attempt, retries)
    /\ ntp_state' = "returned"
    /\ ntp_result' = PyNone
    /\ UNCHANGED <<retries, attempt, ntp_failed, rtc, calc_vars, render_vars,
                   sync_vars, display_vars, reading_vars, run_vars,
                   storage_vars>>

NextNtp == NtpEnter \/ NtpAttempt \/ NtpGiveUp

SpecNtp == InitNtp /\ [][NextNtp]_vars /\ WF_vars(NextNtp)

\* The run of the program: MoonTracker.run(), step by step. run_state is
\* the position of the run: "boot" before initial_sync, then in each cycle
\* "calc", "verify", "display" and "sleep", and "error" in the handler of
\* the loop's exceptions.

RunBoot ==
    /\ run_state = "boot"
    /\ cycles_run = 0
    /\ last_fetch = NotYet
    /\ frame_text = {}
    /\ display_state = "blank"
    /\ calculator = RunCalculator
    /\ constructed = calculator
    /\ timestamp_arg = 0
    /\ reading = NotYet
    /\ earlier = NotYet
    /\ age_float_days = 0
    /\ rise_set_out = NotYet
    /\ local_data = NotYet
    /\ wifi_connected = FALSE
    /\ clock = RunStart
    /\ storage = [last_ntp_sync |-> 0, last_api_sync |-> 0]
    /\ response = [kind |-> "none"]
    /\ api_data = NotYet
    /\ comparison = NotYet
    /\ sync_state = "idle"
    /\ render_arg = <<>>
    /\ render_state = "idle"
    /\ render_path = NoPath
    /\ moon_fb = fill0
    /\ moon_buffer = 0
    /\ oob_bit = 0
    /\ CalcIdle
    /\ DisplayIdle
    /\ NtpIdle
    /\ StorageIdle

\* initial_sync(). boot_time, which it stores too, is not modelled.
InitialSync(resps) ==
    /\ run_state = "boot"
    /\ run_state' = "calc"
    /\ \E connect_ok \in BOOLEAN, ntp_time \in { PyNone, Num(clock) },
          resp \in resps :
          IF ~connect_ok
          THEN UNCHANGED <<wifi_connected, storage, response, api_data,
                           last_fetch>>
          ELSE /\ wifi_connected' = TRUE
               /\ LET ntp_sync == IF ntp_time.t = "num" /\ ntp_time.v # 0
                                  THEN ntp_time.v
                                  ELSE storage.last_ntp_sync
                  IN  IF ~debug
                      THEN /\ storage' = [storage EXCEPT
                                              !.last_ntp_sync = ntp_sync]
                           /\ UNCHANGED <<response, api_data, last_fetch>>
                      ELSE /\ response' = resp
                           /\ api_data' = get_moon_data(resp)
                           /\ last_fetch' =
                                  [t |-> "fetch", at |-> clock,
                                   since |-> storage.last_api_sync,
                                   by |-> "initial_sync"]
                           /\ storage' =
                                  [last_ntp_sync |-> ntp_sync,
                                   last_api_sync |->
                                       IF Falsy(api_data')
                                       THEN storage.last_api_sync
                                       ELSE clock]
    /\ UNCHANGED <<local_data, clock, comparison, sync_state, debug,
                   enable_deep_sleep, display_initialized, cycles_run,
                   frame_text, display_state, calc_vars, render_vars,
                   display_vars, reading_vars, ntp_vars,
                   storage_vars>>

\* moon_data = self.moon_calc.calculate_moon_phase(), at time.time()
CalculateReading ==
    /\ run_state = "calc"
    /\ cycles_run < MaxCycles
    /\ cycles_run' = cycles_run + 1
    /\ run_state' = "verify"
    /\ timestamp_arg' = clock
    /\ LET out == calculate_moon_phase(calculator, clock)
       IN  /\ reading' = out.result
           /\ calculator' = out.self
    /\ local_data' = reading'
    /\ response' = [kind |-> "none"]
    /\ api_data' = NotYet
    /\ comparison' = NotYet
    /\ sync_state' = "idle"
    /\ UNCHANGED <<wifi_connected, clock, storage, constructed, earlier,
                   age_float_days, rise_set_out, debug, enable_deep_sleep,
                   display_initialized, last_fetch, frame_text, display_state,
                   calc_vars, render_vars, display_vars, ntp_vars,
                   storage_vars>>

\* if self._should_sync_api(): self._sync_with_api(moon_data). An exception
\* of _sync_with_api reaches the except clause of the loop.
ApiVerification(resps) ==
    /\ run_state = "verify"
    /\ IF ~should_sync_api(clock, storage.last_api_sync)
       THEN /\ run_state' = "display"
            /\ UNCHANGED <<wifi_connected, storage, response, api_data,
                           comparison, sync_state, last_fetch>>
       ELSE /\ \E connect_ok \in BOOLEAN, resp \in resps,
                  ntp_time \in { PyNone, Num(clock) } :
                  sync_with_api(connect_ok, resp, ntp_time)
            /\ last_fetch' =
                   IF sync_state' = "skipped"
                   THEN last_fetch
                   ELSE [t |-> "fetch", at |-> clock,
                         since |-> storage.last_api_sync,
                         by |-> "_sync_with_api"]
            /\ run_state' =
                   IF sync_state' \in {"skipped", "done"}
                   THEN "display"
                   ELSE "error"
    /\ UNCHANGED <<local_data, clock, debug, enable_deep_sleep,
                   display_initialized, cycles_run, frame_text, display_state,
                   calc_vars, render_vars, display_vars, reading_vars,
                   ntp_vars,
                   storage_vars>>

\* self.display.draw_moon_data(moon_data, config.LOCATION_NAME, time.time()):
\* without the driver it prints; with it, it clears the frame, draws the
\* layout and sends the frame to the panel.
UpdateDisplay ==
    /\ run_state = "display"
    /\ run_state' = "sleep"
    /\ IF ~display_initialized
       THEN /\ display_state' = "simulated"
            /\ UNCHANGED <<frame_text, display_vars, render_vars>>
       ELSE LET name == Get(reading.phase_name, Str(Unknown)).v
            IN  /\ display_state' = "updated"
                /\ frame_text' = layout_text(reading, clock)
                /\ frame_in' = blank_frame
                /\ render_arg' = name
                /\ IF FrameBufferRaises(fb_validates, BufferLen)
                   THEN /\ render_state' = "ValueError"
                        /\ draw_state' = "fallback"
                        /\ frame' = draw_moon_bitmap(blank_frame, name, moon_x,
                                                     moon_y, fb_validates,
                                                     oob_bit).fb
                        /\ UNCHANGED <<render_path, moon_fb, moon_buffer,
                                       oob_bit>>
                   ELSE /\ render_state' = "returned"
                        /\ draw_state' = "bitmap"
                        /\ render_path' = render_branch(name)
                        /\ moon_fb' = render_bitmap(name)
                        /\ moon_buffer' = BufferLen
                        /\ oob_bit' \in OobReads
                        /\ frame' = draw_moon_bitmap(blank_frame, name, moon_x,
                                                     moon_y, fb_validates,
                                                     oob_bit').fb
                /\ UNCHANGED fb_validates
    /\ UNCHANGED <<sync_vars, debug, enable_deep_sleep, display_initialized,
                   cycles_run, last_fetch, calc_vars, reading_vars, ntp_vars,
                   storage_vars>>

\* time.sleep(config.LOCAL_UPDATE_INTERVAL); the connection may drop
\* meanwhile.
Sleep ==
    /\ run_state = "sleep"
    /\ ~enable_deep_sleep
    /\ run_state' = "calc"
    /\ clock' = clock + LOCAL_UPDATE_INTERVAL
    /\ wifi_connected' \in {wifi_connected, FALSE}
    /\ UNCHANGED <<local_data, storage, response, api_data, comparison,
                   sync_state, debug, enable_deep_sleep, display_initialized,
                   cycles_run, last_fetch, frame_text, display_state,
                   calc_vars, render_vars, display_vars, reading_vars,
                   ntp_vars,
                   storage_vars>>

\* self._deep_sleep(config.LOCAL_UPDATE_INTERVAL): the Pico resets on
\* wake, and the program starts again with what storage kept.
DeepSleep ==
    /\ run_state = "sleep"
    /\ enable_deep_sleep
    /\ run_state' = "boot"
    /\ clock' = clock + LOCAL_UPDATE_INTERVAL
    /\ wifi_connected' = FALSE
    /\ local_data' = NotYet
    /\ reading' = NotYet
    /\ response' = [kind |-> "none"]
    /\ api_data' = NotYet
    /\ comparison' = NotYet
    /\ sync_state' = "idle"
    /\ UNCHANGED <<storage, calculator, constructed, timestamp_arg, earlier,
                   age_float_days, rise_set_out, debug, enable_deep_sleep,
                   display_initialized, cycles_run, last_fetch, frame_text,
                   display_state, calc_vars, render_vars, display_vars,
                   ntp_vars,
                   storage_vars>>

\* except Exception: time.sleep(60), less than a tick, and the next cycle
ErrorWait ==
    /\ run_state = "error"
    /\ run_state' = "calc"
    /\ UNCHANGED <<sync_vars, debug, enable_deep_sleep, display_initialized,
                   cycles_run, last_fetch, frame_text, display_state,
                   calc_vars, render_vars, display_vars, reading_vars,
                   ntp_vars,
                   storage_vars>>

\* SpecSchedule: the run with each setting of config.DEBUG and of
\* config.ENABLE_DEEP_SLEEP, the display driver absent.

InitSchedule ==
    /\ debug \in BOOLEAN
    /\ enable_deep_sleep \in BOOLEAN
    /\ display_initialized = FALSE
    /\ fb_validates = TRUE
    /\ RunBoot

NextSchedule ==
    \/ InitialSync(RunResponses)
    \/ CalculateReading
    \/ ApiVerification(RunResponses)
    \/ UpdateDisplay
    \/ Sleep
    \/ DeepSleep
    \/ ErrorWait

SpecSchedule == InitSchedule /\ [][NextSchedule]_vars

\* SpecCycle: the run with the display driver present, on firmware that
\* checks the length of a frame buffer's bytearray and on firmware that
\* does not.

InitCycle ==
    /\ debug = FALSE
    /\ enable_deep_sleep \in BOOLEAN
    /\ display_initialized = TRUE
    /\ fb_validates \in BOOLEAN
    /\ RunBoot

NextCycles ==
    \/ InitialSync(RunResponses)
    \/ CalculateReading
    \/ ApiVerification(RunResponses)
    \/ UpdateDisplay
    \/ Sleep
    \/ DeepSleep
    \/ ErrorWait

SpecCycle == InitCycle /\ [][NextCycles]_vars

\* SpecStorage: calls of Storage.set, each followed or not by a restart
\* that constructs the Storage anew.

InitStorage ==
    /\ flash_file \in
           { MissingFile, BrokenFile, json_dump(DefaultData),
             json_dump(set_item(DefaultData, "last_ntp_sync", Num(1332000))) }
    /\ storage_data = load(flash_file)
    /\ set_call = NotYet
    /\ storage_state = "loaded"
    /\ CalcIdle
    /\ RenderIdle
    /\ SyncIdle
    /\ DisplayIdle
    /\ ReadingIdle
    /\ RunIdle
    /\ NtpIdle

\* set(key, value): the item is assigned and save() writes the file. open
\* may raise OSError, and so may the write, after open has emptied the
\* file; save() then returns False.
StorageSet(key, value) ==
    /\ (IF set_call = NotYet THEN 0 ELSE set_call.n) < MaxSets
    /\ storage_data' = set_item(storage_data, key, value)
    /\ storage_state' = "set"
    /\ \E outcome \in {"saved", "open fails", "write fails"} :
          /\ flash_file' =
                 CASE outcome = "saved" -> json_dump(storage_data')
                   [] outcome = "open fails" -> flash_file
                   [] outcome = "write fails" -> BrokenFile
          /\ set_call' =
                 [t |-> "set",
                  n |-> (IF set_call = NotYet THEN 0 ELSE set_call.n) + 1,
                  key |-> key, value |-> value, before |-> storage_data,
                  returned |-> (outcome = "saved")]
    /\ UNCHANGED <<calc_vars, render_vars, sync_vars, display_vars,
                   reading_vars, run_vars, ntp_vars>>

\* Storage() after a restart: self.data = self._load()
StorageConstruct ==
    /\ storage_state = "set"
    /\ storage_data' = load(flash_file)
    /\ storage_state' = "loaded"
    /\ UNCHANGED <<flash_file, set_call, calc_vars, render_vars, sync_vars,
                   display_vars, reading_vars, run_vars, ntp_vars>>

NextStorage ==
    \/ \E key \in StorageKeys, value \in StorageValues : StorageSet(key, value)
    \/ StorageConstruct

SpecStorage == InitStorage /\ [][NextStorage]_vars

----------------------------------------------------------------------------
(* Claims about _get_phase_name (SpecPhase).                               *)

\* The table of half-open intervals of the cycle fraction.
IntervalName(age) ==
    IF PhaseLt(age, 33) \/ PhaseGe(age, 967) THEN NewMoon
    ELSE IF PhaseLt(age, 216) THEN WaxingCrescent
    ELSE IF PhaseLt(age, 283) THEN FirstQuarter
    ELSE IF PhaseLt(age, 467) THEN WaxingGibbous
    ELSE IF PhaseLt(age, 533) THEN FullMoon
    ELSE IF PhaseLt(age, 717) THEN WaningGibbous
    ELSE IF PhaseLt(age, 783) THEN LastQuarter
    ELSE WaningCrescent

(* C1: for every cycle fraction p in [0,1), _get_phase_name returns the    *)
(* phase of the half-open interval table, each boundary value, p = 0.967   *)
(* included, belonging to the interval that starts at it.                  *)
C1_PhaseNameOfIntervalTable ==
    phase_name # Pending => phase_name = IntervalName(age_days)

(* C2: _get_phase_name is total and single-valued over [0, synodic_month): *)
(* the name returned is one of the eight phase names, and no age satisfies *)
(* the conditions of two branches.                                         *)
C2_TotalSingleValued ==
    phase_name # Pending =>
        /\ phase_name \in PhaseNames
        /\ Cardinality({ i \in 1 .. 7 : BranchCond(i, age_days) }) <= 1

\* An age no condition of the if/elif chain holds of got its name from the
\* else branch.
C2_Witness ==
    /\ phase_name = WaningCrescent
    /\ { i \in 1 .. 7 : BranchCond(i, age_days) } = {}

----------------------------------------------------------------------------
(* Claims about render_moon_phase (SpecRender).                            *)

\* The disc of the moon: the pixels draw_circle_filled sets.
Disc == draw_circle_filled(fill0, center_x, center_y, radius, 1)
DiscPixels == { p \in Cols \X Rows : p[1] \in Disc[p[2]] }

\* The number of pixels of the disc that are foreground in fb.
LitInDisc(fb) == Cardinality({ p \in DiscPixels : p[1] \in fb[p[2]] })

Gibbous == { WaxingGibbous, WaningGibbous }
Crescents == { WaxingCrescent, WaningCrescent }

(* C3: the bitmap rendered for a Gibbous phase has more than half of the   *)
(* disc's pixels foreground, the bitmap rendered for a Crescent phase      *)
(* fewer than half, for the waxing and the waning direction alike.         *)
C3_GibbousMostlyFullCrescentMostlyEmpty ==
    render_state = "returned" =>
        /\ render_arg \in Gibbous =>
               2 * LitInDisc(moon_fb) > Cardinality(DiscPixels)
        /\ render_arg \in Crescents =>
               2 * LitInDisc(moon_fb) < Cardinality(DiscPixels)

(* C4: the bitmap returned is 155x152, 20 = ceil(155/8) bytes a row, and   *)
(* its buffer holds at least 20 x 152 = 3040 bytes, so that every pixel    *)
(* (x, y) of the bitmap addresses a byte inside the buffer.                *)
C4_BufferHoldsEveryPixel ==
    render_state = "returned" =>
        /\ BytesPerRow = 20
        /\ moon_buffer >= 20 * 152
        /\ \A x \in Cols, y \in Rows : ByteIndex(x, y) < moon_buffer

\* The rendering path of each of the eight phase names.
PathOf(name) ==
    CASE name = NewMoon -> OutlineOnly
      [] name = FullMoon -> FilledDisc
      [] name = FirstQuarter -> Crescent(50, TRUE)
      [] name = LastQuarter -> Crescent(50, FALSE)
      [] name = WaxingCrescent -> Crescent(25, TRUE)
      [] name = WaningCrescent -> Crescent(25, FALSE)
      [] name = WaxingGibbous -> Crescent(75, TRUE)
      [] name = WaningGibbous -> Crescent(75, FALSE)

(* C5: render_moon_phase takes each of the eight phase names through its   *)
(* own rendering path: New Moon the outline only, Full Moon the filled     *)
(* disc and the outline, the quarters draw_crescent at 50, the crescents   *)
(* at 25 and the gibbous phases at 75, waxing or not by the name.          *)
C5_EachNameReachesItsBranch ==
    (render_state # "idle" /\ render_arg \in PhaseNames) =>
        render_path = PathOf(render_arg)

(* C6: a phase name that is not one of the eight is rendered exactly as    *)
(* Full Moon, and no exception is raised.                                  *)
C6_OtherNamesRenderAsFullMoon ==
    (render_state # "idle" /\ render_arg \notin PhaseNames) =>
        /\ render_state = "returned"
        /\ moon_fb = render_bitmap(FullMoon)

\* The waning partner of a waxing phase.
Waning(name) ==
    CASE name = FirstQuarter -> LastQuarter
      [] name = WaxingCrescent -> WaningCrescent
      [] name = WaxingGibbous -> WaningGibbous

(* C7: the bitmaps of a waxing phase and of its waning partner are mirror  *)
(* images about the centre column: pixel (x, y) of the one is pixel        *)
(* (154 - x, y) of the other, for every pixel of the 155x152 bitmap.       *)
C7_WaxingWaningMirrored ==
    (render_state # "idle"
        /\ render_arg \in { FirstQuarter, WaxingCrescent, WaxingGibbous }) =>
        /\ render_state = "returned"
        /\ LET other == render_bitmap(Waning(render_arg))
           IN  \A ob \in OobReads : \A y \in Rows :
                   LET row == other[y]
                   IN  \A x \in Cols :
                           pixel(moon_fb, oob_bit, x, y)
                               = IF InBuffer(154 - x, y)
                                 THEN (IF 154 - x \in row THEN 1 ELSE 0)
                                 ELSE ob

----------------------------------------------------------------------------
(* Claims about compare_with_api and _sync_with_api (SpecSync).            *)

\* compare_with_api returned a comparison of two numeric readings.
Compared == sync_state = "done" /\ comparison.t = "dict"

IlluminationDiff == Abs(local_data.illumination.v - api_data.illumination.v)
AgeDiff == Abs(local_data.age_days.v - api_data.age_days.v)

(* C8: compare_with_api returns illumination_diff = |local.illumination -  *)
(* remote.illumination| with illumination_match iff that difference is     *)
(* strictly less than 5.0, age_diff = |local.age_days - remote.age_days|   *)
(* with age_match iff that difference is strictly less than 0.5, and       *)
(* phase_name_match iff the two phase names are equal.                     *)
C8_DiffsAndMatches ==
    Compared =>
        /\ comparison.illumination_diff = IlluminationDiff
        /\ comparison.illumination_match <=> IlluminationDiff < 5000
        /\ comparison.age_diff = AgeDiff
        /\ comparison.age_match <=> AgeDiff < 500
        /\ comparison.phase_name_match
               <=> PyEq(local_data.phase_name, api_data.phase_name)

(* C8, amended: the differences returned are the absolute differences      *)
(* rounded to two decimals; the match flags are decided on the unrounded   *)
(* differences, strictly less than 5.0 and 0.5; phase_name_match iff the   *)
(* two phase names are equal.                                              *)
C8_RoundedDiffsAndMatches ==
    Compared =>
        /\ comparison.illumination_diff \in round2(IlluminationDiff)
        /\ comparison.illumination_diff % 10 = 0
        /\ comparison.illumination_match <=> IlluminationDiff < 5000
        /\ comparison.age_diff \in round2(AgeDiff)
        /\ comparison.age_diff % 10 = 0
        /\ comparison.age_match <=> AgeDiff < 500
        /\ comparison.phase_name_match
               <=> PyEq(local_data.phase_name, api_data.phase_name)

\* A difference of exactly 5.0 was compared and is no match, and the
\* difference returned is not the unrounded one.
C8_Witness ==
    /\ Compared
    /\ IlluminationDiff = 5000 /\ ~comparison.illumination_match
    /\ comparison.age_diff # AgeDiff

\* The remote reading came as a JSON object.
GotObject == response.kind = "ok" /\ response.data.kind = "dict"

\* A lookup of _parse_response is made on a value that is no dict.
LookupOnNonDict ==
    \/ response.data.phase.t \notin {"absent", "dict"}
    \/ ~response.data.others_ok

\* Field f of the 'phase' object is missing (with the object or alone).
LacksPhaseField(f) ==
    \/ response.data.phase.t = "absent"
    \/ response.data.phase.t = "dict" /\ response.data.phase.v[f].t = "absent"

\* The remote reading lacks one of the five fields.
LacksField ==
    /\ GotObject
    /\ \/ \E f \in {"phase", "illumination", "age"} : LacksPhaseField(f)
       \/ response.data.moonrise.t = "absent"
       \/ response.data.moonset.t = "absent"

C10_SyncNeverRaises ==
    sync_state \in {"idle", "skipped", "done"}

----------------------------------------------------------------------------
(* Claims about compare_with_api alone (SpecCompare).                      *)

(* C11: when the remote data is unavailable (api_data is None or empty),   *)
(* compare_with_api returns None: it raises nothing, which reading a field *)
(* of such a value would do.                                               *)
C11_UnavailableRemoteGivesNone ==
    (sync_state # "idle" /\ Falsy(api_data)) =>
        /\ sync_state = "done"
        /\ comparison = PyNone

\* The comparison was called with None and has returned None.
C11_Witness ==
    sync_state = "done" /\ api_data = PyNone /\ comparison = PyNone

----------------------------------------------------------------------------
(* Claims about _draw_moon_bitmap (SpecBlit).                              *)

(* C12: the copy of the moon bitmap into the frame at (30, 70) sets and    *)
(* never clears: afterwards a frame pixel inside the 155x152 rectangle is  *)
(* foreground iff it was foreground before or the pixel of the bitmap of   *)
(* the phase that lies on it is foreground, and every frame pixel outside  *)
(* the rectangle is as it was.                                             *)
C12_BlitIsCopyOnSet ==
    draw_state # "idle" =>
        LET source == render_bitmap(render_arg)
        IN  \A r \in FrameRows :
                frame[r] =
                    IF r - 70 \in Rows
                    THEN frame_in[r] \cup { 30 + dx : dx \in source[r - 70] }
                    ELSE frame_in[r]

----------------------------------------------------------------------------
(* Claims about calculate_moon_phase (SpecReading).                        *)

(* C14: for every timestamp, those before the reference new moon and the   *)
(* negative ones included, the age computed satisfies 0 <= age_days <      *)
(* synodic_month, and the call returns a reading.                          *)
C14_AgeWithinCycle ==
    reading # NotYet =>
        /\ reading.t = "dict"
        /\ 0 <= age_days /\ age_days < synodic_month
        /\ 0 <= reading.age_days.v /\ reading.age_days.v < 29531

\* A reading was returned for a negative timestamp, which lies before the
\* reference new moon too, at an age that is not zero.
C14_Witness ==
    /\ reading # NotYet
    /\ timestamp_arg < 0
    /\ timestamp_to_julian(timestamp_arg) < known_new_moon_jd
    /\ age_days > 0

(* C16: the illumination of a reading lies in [0, 100]; it is 0 at age 0   *)
(* and 100 at half the synodic month; age 0 is named New Moon, a quarter   *)
(* of the synodic month First Quarter with illumination 50, and half the   *)
(* synodic month Full Moon.                                                *)
C16_IlluminationAndBandCentres ==
    reading # NotYet =>
        /\ 0 <= reading.illumination.v /\ reading.illumination.v <= 100000
        /\ age_days = 0 =>
               /\ reading.illumination.v = 0
               /\ reading.phase_name = Str(NewMoon)
        /\ 4 * age_days = synodic_month =>
               /\ reading.illumination.v = 50000
               /\ reading.phase_name = Str(FirstQuarter)
        /\ 2 * age_days = synodic_month =>
               /\ reading.illumination.v = 100000
               /\ reading.phase_name = Str(FullMoon)

\* A reading was returned at a quarter of the synodic month, at a timestamp
\* of November 2023.
C16_Witness ==
    /\ reading # NotYet
    /\ 4 * age_days = synodic_month
    /\ timestamp_arg > 1332940
    /\ reading.illumination.v = 50000

(* C17: the latitude and the longitude of the calculator do not influence  *)
(* the reading: calculators that differ in them alone return the same      *)
(* reading for the same timestamp.                                         *)
C17_CoordinatesDoNotMatter ==
    reading # NotYet =>
        \A lat \in Latitudes, lon \in Longitudes :
            calculate_moon_phase(
                [constructed EXCEPT !.latitude = lat, !.longitude = lon],
                timestamp_arg).result = reading

\* A reading was returned by a calculator at 40.713 N, 74.006 W, eight hours
\* behind UTC.
C17_Witness ==
    /\ reading # NotYet
    /\ constructed.latitude = 40713
    /\ constructed.longitude = -74006
    /\ constructed.timezone_offset < 0

----------------------------------------------------------------------------
(* Claims about _calculate_rise_set (SpecRiseSet).                         *)

\* (base + age_days * 50 / 60 + timezone_offset) mod 24 in exact
\* arithmetic, in sixtieths of a unit of HourUnits.
SingleModulus(base) ==
    (base * HourUnits * 60 + age_float_days * 50
         + calculator.timezone_offset * 60) % (24 * HourUnits * 60)

\* The distance round the clock between an hour the code computed and the
\* exact one, in sixtieths of a unit.
ClockDistance(hour, exact) ==
    LET d == (hour * 60 - exact) % (24 * HourUnits * 60)
    IN  IF 2 * d > 24 * HourUnits * 60 THEN 24 * HourUnits * 60 - d ELSE d

\* HH:MM, zero-padded, with HH in 00..23 and MM in 00..59
WellFormedTime(s) ==
    \E hh \in 0 .. 23, mm \in 0 .. 59 :
        s = format_02d(hh) \o <<":">> \o format_02d(mm)

(* C15: the moonrise hour is (6.0 + age_days * 50 / 60 + timezone_offset)  *)
(* mod 24 and the moonset hour the same with 18.0: the two moduli the code *)
(* applies come to the single one, up to the rounding of the floats (half  *)
(* a minute here); and both are formatted as zero-padded HH:MM with HH in  *)
(* 00..23 and MM in 00..59.                                                *)
C15_RiseSetHoursOnTheClock ==
    rise_set_out # NotYet =>
        /\ ClockDistance(rise_set_out.moonrise_hour, SingleModulus(6))
               <= HourUnits \div 2
        /\ ClockDistance(rise_set_out.moonset_hour, SingleModulus(18))
               <= HourUnits \div 2
        /\ WellFormedTime(rise_set_out.moonrise)
        /\ WellFormedTime(rise_set_out.moonset)

----------------------------------------------------------------------------
(* Claims about repeated calls of calculate_moon_phase (SpecCalls).        *)

(* C18: calculate_moon_phase is deterministic and stateless: a call with   *)
(* the explicit timestamp of an earlier call returns the reading that call *)
(* returned, whatever calls were made in between, and no call modifies a   *)
(* field of the calculator.                                                *)
C18_DeterministicAndStateless ==
    /\ calculator = constructed
    /\ (earlier # NotYet /\ earlier.timestamp = timestamp_arg) =>
           reading = earlier.result

\* A timestamp was passed again, two other calls after the first one.
C18_Witness ==
    /\ earlier # NotYet
    /\ earlier.timestamp = timestamp_arg
    /\ earlier.between = 2
    /\ reading = earlier.result
    /\ reading.timestamp = Num(timestamp_arg)

----------------------------------------------------------------------------
(* Claims about sync_time_ntp (SpecNtp).                                   *)

\* What holds of every state of a call of sync_time_ntp
NtpOutcome ==
    /\ attempt <= retries
    /\ ntp_state = "returned" =>
           /\ ~wifi_connected => attempt = 0 /\ ntp_result = PyNone
           /\ wifi_connected =>
                  /\ ntp_result = PyNone <=>
                         (attempt = retries /\ ntp_failed = retries)
                  /\ ntp_result # PyNone =>
                         /\ ntp_result = Num(rtc)
                         /\ attempt = ntp_failed + 1

(* C20: sync_time_ntp terminates after at most retries attempts: without   *)
(* WiFi it makes no attempt and returns None; it stops at the first        *)
(* attempt that succeeds and returns that time; and it returns None        *)
(* exactly when each of the retries attempts failed.                       *)
C20_NtpTerminatesWithinRetries ==
    /\ []NtpOutcome
    /\ <>(ntp_state = "returned")

\* The time of the third attempt was returned, the two before it failed.
C20_Witness ==
    /\ ntp_state = "returned"
    /\ ntp_failed = 2
    /\ attempt = 3
    /\ retries = 4
    /\ ntp_result = Num(rtc)

----------------------------------------------------------------------------
(* Claims about the run of the program (SpecSchedule).                     *)

(* C19: over the whole run, initial_sync, the update loop and the          *)
(* restarts that reload the stored last_api_sync, the remote API is        *)
(* requested only when at least API_UPDATE_INTERVAL has passed since the   *)
(* last successful API sync that storage holds.                            *)
C19_FetchOnlyWhenIntervalElapsed ==
    last_fetch # NotYet =>
        last_fetch.at - last_fetch.since >= API_UPDATE_INTERVAL

----------------------------------------------------------------------------
(* Claims about the frames of the run (SpecCycle).                         *)

\* The rows of the bitmap that lie inside its buffer whole
RowsInBuffer == { y \in Rows : InBuffer(width - 1, y) }

(* C13: in every update cycle the frame handed to the display is composed  *)
(* from the reading of that cycle, and the moon bitmap blitted into it was *)
(* rendered in that cycle for the phase_name of that reading, the name     *)
(* printed as text; nothing of an earlier cycle is reused.                 *)
C13_FrameFromThisCyclesReading ==
    (run_state = "sleep" /\ display_state = "updated") =>
        /\ reading.timestamp = Num(clock)
        /\ frame_text = layout_text(reading, clock)
        /\ Text((220 - Len(reading.phase_name.v) * 8) \div 2, 245, "str",
                reading.phase_name.v, 0) \in frame_text
        /\ render_arg = reading.phase_name.v
        /\ render_state = "returned"
        /\ draw_state = "bitmap"
        /\ \A dy \in RowsInBuffer :
               frame[moon_y + dy] = { moon_x + dx : dx \in moon_fb[dy] }

----------------------------------------------------------------------------
(* Claims about Storage (SpecStorage).                                     *)

\* The Storage in use was constructed after a set that returned True.
ReloadedAfterSet ==
    /\ storage_state = "loaded"
    /\ set_call # NotYet
    /\ set_call.returned

(* C21: after Storage.set(key, value) has returned True, a Storage         *)
(* constructed afterwards returns that value for that key, and the values  *)
(* of the other keys are as they were before the set.                      *)
C21_StoredValuesSurviveRestart ==
    ReloadedAfterSet =>
        /\ set_call.key \in DOMAIN storage_data
        /\ storage_data[set_call.key] = set_call.value
        /\ \A k \in DOMAIN set_call.before \ {set_call.key} :
               /\ k \in DOMAIN storage_data
               /\ storage_data[k] = set_call.before[k]

\* A key the defaults do not have was set to a string and read back after
\* a restart, last_api_sync having been set to a time before.
C21_Witness ==
    /\ ReloadedAfterSet
    /\ set_call.key = "note"
    /\ set_call.value = Str(<<"o", "k">>)
    /\ set_call.before["last_api_sync"] = Num(1332971)
    /\ storage_data["last_api_sync"] = Num(1332971)
    /\ storage_data["note"] = Str(<<"o", "k">>)

----------------------------------------------------------------------------
(* Claims about the shape of the bitmaps (SpecRender).                     *)

\* Pixel (x, y) lies on a scanline of the circle, no further from the
\* centre column than the half-width floor(sqrt(r^2 - dy^2)) there.
WithinCircle(x, y) ==
    LET dy == y - center_y
        dx == x - center_x
    IN  /\ -radius <= dy /\ dy <= radius
        /\ dx * dx <= radius * radius - dy * dy

\* The pixels draw_circle_outline sets for the circle of the moon
Outline == draw_circle_outline(fill0, center_x, center_y, radius, 1)

(* C22: every foreground pixel of a bitmap render_moon_phase returns lies  *)
(* on the outline of the circle or inside the disc: on each scanline a     *)
(* filled pixel's distance from the centre column is at most the           *)
(* half-width of the circle there.                                         *)
C22_ForegroundWithinCircle ==
    render_state = "returned" =>
        LET outline == Outline
        IN  \A y \in Rows :
                \A x \in moon_fb[y] : x \in outline[y] \/ WithinCircle(x, y)

----------------------------------------------------------------------------
(* Claims about the cycles of the run (SpecCycle).                         *)

(* C23: in every iteration of the run loop the display is updated with the *)
(* reading computed locally, whatever the API verification of that         *)
(* iteration came to: from the verification the run always goes on to      *)
(* draw_moon_data.                                                         *)
C23_VerificationNeverSkipsDisplay ==
    [][run_state = "verify" => run_state' = "display"]_vars

----------------------------------------------------------------------------
(* Claims about failed verifications (SpecSchedule).                       *)

\* _sync_with_api could not connect, or its request returned None.
FailedSync ==
    \/ sync_state = "skipped"
    \/ sync_state = "done" /\ api_data = PyNone

SyncDue == should_sync_api(clock, storage.last_api_sync)

----------------------------------------------------------------------------
(* Claims about the fields of one comparison (SpecSync).                   *)

(* C25: in every result of compare_with_api, illumination_match is true    *)
(* iff the illumination_diff returned (rounded to two decimals) is less    *)
(* than 5.0, and age_match is true iff the age_diff returned is less than  *)
(* 0.5.                                                                    *)
C25_MatchesAgreeWithReturnedDiffs ==
    Compared =>
        /\ comparison.illumination_match
               <=> comparison.illumination_diff < 5000
        /\ comparison.age_match <=> comparison.age_diff < 500

(* C25, amended: the match flags are decided before the rounding:          *)
(* illumination_match iff the unrounded difference is less than 5.0,       *)
(* age_match iff the unrounded difference is less than 0.5. A returned     *)
(* difference below the threshold comes with a match and one above it with *)
(* none; a returned difference equal to the threshold comes with either.   *)
C25_MatchesDecidedBeforeRounding ==
    Compared =>
        /\ comparison.illumination_match = (IlluminationDiff < 5000)
        /\ comparison.illumination_match
               => comparison.illumination_diff <= 5000
        /\ ~comparison.illumination_match
               => comparison.illumination_diff >= 5000
        /\ comparison.age_match = (AgeDiff < 500)
        /\ comparison.age_match => comparison.age_diff <= 500
        /\ ~comparison.age_match => comparison.age_diff >= 500

\* A difference of 4.996 is a match and is returned as 5.0.
C25_Witness ==
    /\ Compared
    /\ IlluminationDiff = 4996
    /\ comparison.illumination_match
    /\ comparison.illumination_diff = 5000

====
